---- MODULE Spec2Model ----
(***************************************************************************)
(* A model of the agent runtime's retry policy (src/model/retry.ts), of    *)
(* its workspace path validation (resolveWorkspacePath and -Safe), and of  *)
(* its tool context store (src/utils/context.ts).                          *)
(*                                                                         *)
(* The sub-systems live in this module, each with its own specification:   *)
(*   SpecRetry / SpecRetryConcurrent   withRetry, one call / two calls     *)
(*   SpecPath                          resolveWorkspacePath(Safe)          *)
(*   SpecContext                       ContextManager: save, load, clear   *)
(*   SpecSelect                        selectRelevantContexts              *)
(* A specification leaves the other sub-systems' variables untouched.      *)
(***************************************************************************)
EXTENDS Integers, Sequences, FiniteSets, TLC

VARIABLES
    \* ---- withRetry, one entry per call in flight
    pc,          \* where each call stands: unused / awaitOp / sleeping / done / thrown
    opts,        \* the RetryOptions each call was given
    operation,   \* what each call's wrapped operation may do
    attempt,     \* the loop counter `attempt` of each call
    opLog,       \* the responses the operation returned, in order
    onRetryLog,  \* the RetryContext values handed to onRetry, in order
    sleepLog,    \* the durations handed to sleep(), in order
    events,      \* the order of the observable events of each call
    result,      \* what the call returned
    \* ---- resolveWorkspacePath / resolveWorkspacePathSafe, one call
    fsys,          \* the filesystem: absolute segment lists -> directory, file or link
    request,       \* the function called and its arguments
    ppc,           \* where the call stands: idle / start / realWorkspace / realPath / walk / done
    basicResult,   \* the local basicResult
    realWorkspace, \* the local realWorkspace
    checkPath,     \* the local checkPath of the parent walk
    fsCalls,       \* the paths handed to fs.realpath, in order
    outcome,       \* what the call returned
    \* ---- ContextManager, one instance over one context directory
    dirExists,       \* whether the context directory exists on disk
    files,           \* the files in the context directory: name -> content
    pointers,        \* the field `pointers`
    filenameCounter, \* the field `filenameCounter`
    clock,           \* what Date.now() returns
    saveCalls,       \* the saveContext calls in flight, one entry per slot
    writeLog,        \* the writeFile calls made, in order
    saveLog,         \* the saveContext calls settled since the last clear(), in order
    loadCall,        \* the loadContexts call
    clearCall,       \* the clear() call
    queryResult,     \* what the last pointer query returned
    \* ---- selectRelevantContexts, one call
    selInput,        \* the query and the pointers given
    selOutput,       \* what the call returned
    \* ---- the agent orchestrator, one session
    orchState,          \* the state of the orchestrator's state machine
    llmResponse,        \* the model's latest response
    toolCalls,          \* the tool calls of the current model turn: id -> status
    rounds,             \* the tool rounds completed
    cancellationSignal, \* whether cancellation has been signaled
    callbackLog,        \* the lifecycle callbacks made, in order
    toolResults,        \* the tool results handed back to the model, one entry per round
    contextFiles,       \* the tool calls whose result was persisted: <<round, id>>
    \* ---- InteractiveShell, one mounted component
    shell,              \* the component's ShellState
    agentRef,           \* whether agentRef.current holds an Agent
    agentRuns,          \* the runStream calls made: id -> where the run stands
    exited,             \* whether exit() was called
    \* ---- the model invocation client (LLMClient), one instance
    selectedProvider,   \* config.providers.default
    cachedClient,       \* the cached client: none, or the provider it was made for
    factoryCalls,       \* the provider factory calls made, in order
    llmCall,            \* the invoke() or stream() call in progress
    llmNotifications,   \* the callbacks of the call in progress, in order
    \* ---- the tool registry, one process
    toolMemo,           \* the memoized initialization of each tool id
    initRuns,           \* how many times each tool's init was executed
    toolRequests,       \* the requests for an initialized tool, in order
    \* ---- extractRetryAfter, one call
    retryAfterCall,     \* the call: its argument, the time, and what it returned
    \* ---- executeCustomCommand, one call
    commandCall,        \* the call: the command body, the arguments, where it stands, the prompt so far
    fileReads,          \* the file paths handed to stat and readFile, in order
    commandsRun,        \* the commands handed to the shell, in order
    \* ---- The write tool, two executions on one path
    writers,            \* each execution of the write tool: its position, arguments and locals
    inodes,             \* the content of every file created so far, by inode number
    dirEntries,         \* the directory of the target: the inode each name refers to, 0 when absent
    previousTarget,     \* the state of the target before the executions
    writeNow            \* Date.now()

retryVars == <<pc, opts, operation, attempt, opLog, onRetryLog, sleepLog, events, result>>

pathVars == <<fsys, request, ppc, basicResult, realWorkspace, checkPath, fsCalls, outcome>>

ctxVars ==
    <<dirExists, files, pointers, filenameCounter, clock, saveCalls, writeLog, saveLog,
      loadCall, clearCall, queryResult>>

selVars == <<selInput, selOutput>>

orchVars ==
    <<orchState, llmResponse, toolCalls, rounds, cancellationSignal, callbackLog,
      toolResults, contextFiles>>

shellVars == <<shell, agentRef, agentRuns, exited>>

clientVars == <<selectedProvider, cachedClient, factoryCalls, llmCall, llmNotifications>>

registryVars == <<toolMemo, initRuns, toolRequests>>

retryAfterVars == <<retryAfterCall>>

commandVars == <<commandCall, fileReads, commandsRun>>

writeVars == <<writers, inodes, dirEntries, previousTarget, writeNow>>

vars ==
    <<retryVars, pathVars, ctxVars, selVars, orchVars, shellVars, clientVars,
      registryVars, retryAfterVars, commandVars, writeVars>>

nonRetryVars ==
    <<pathVars, ctxVars, selVars, orchVars, shellVars, clientVars,
      registryVars, retryAfterVars, commandVars, writeVars>>

nonPathVars ==
    <<retryVars, ctxVars, selVars, orchVars, shellVars, clientVars,
      registryVars, retryAfterVars, commandVars, writeVars>>

nonCtxVars ==
    <<retryVars, pathVars, selVars, orchVars, shellVars, clientVars,
      registryVars, retryAfterVars, commandVars, writeVars>>

nonSelVars ==
    <<retryVars, pathVars, ctxVars, orchVars, shellVars, clientVars,
      registryVars, retryAfterVars, commandVars, writeVars>>

nonOrchVars ==
    <<retryVars, pathVars, ctxVars, selVars, shellVars, clientVars,
      registryVars, retryAfterVars, commandVars, writeVars>>

nonShellVars ==
    <<retryVars, pathVars, ctxVars, selVars, orchVars, clientVars,
      registryVars, retryAfterVars, commandVars, writeVars>>

nonClientVars ==
    <<retryVars, pathVars, ctxVars, selVars, orchVars, shellVars,
      registryVars, retryAfterVars, commandVars, writeVars>>

nonRegistryVars ==
    <<retryVars, pathVars, ctxVars, selVars, orchVars, shellVars, clientVars,
      retryAfterVars, commandVars, writeVars>>


nonRetryAfterVars ==
    <<retryVars, pathVars, ctxVars, selVars, orchVars, shellVars, clientVars,
      registryVars, commandVars, writeVars>>


nonCommandVars ==
    <<retryVars, pathVars, ctxVars, selVars, orchVars, shellVars, clientVars,
      registryVars, retryAfterVars, writeVars>>


nonWriteVars ==
    <<retryVars, pathVars, ctxVars, selVars, orchVars, shellVars, clientVars,
      registryVars, retryAfterVars, commandVars>>

----------------------------------------------------------------------------
(* Optional values: undefined is the empty sequence, a value a singleton.  *)
Undefined == <<>>
Some(x) == <<x>>

Min(a, b) == IF a <= b THEN a ELSE b
Max(a, b) == IF a >= b THEN a ELSE b

RECURSIVE Pow2(_)
Pow2(n) == IF n <= 0 THEN 1 ELSE 2 * Pow2(n - 1)

----------------------------------------------------------------------------
(* Bounds of the model.                                                    *)
MaxRetriesBound == 2
RandDen == 4

(* Program constants.                                                      *)
JitterPercent == 25
ProviderDelayMs == 5000
TestBaseDelayMs == 100

----------------------------------------------------------------------------
(* Error codes and responses.                                              *)
ErrorCodes ==
    {"PROVIDER_NOT_CONFIGURED", "PROVIDER_NOT_SUPPORTED", "AUTHENTICATION_ERROR",
     "RATE_LIMITED", "MODEL_NOT_FOUND", "CONTEXT_LENGTH_EXCEEDED", "NETWORK_ERROR",
     "TIMEOUT", "INVALID_RESPONSE", "UNKNOWN"}

RETRYABLE_ERROR_CODES_WithAuth == {"RATE_LIMITED", "NETWORK_ERROR", "TIMEOUT", "AUTHENTICATION_ERROR"}

RETRYABLE_ERROR_CODES == {"RATE_LIMITED", "NETWORK_ERROR", "TIMEOUT"}

isRetryableError(code) == code \in RETRYABLE_ERROR_CODES

MessageOf(code) == "message: " \o code

successResponse ==
    [success |-> TRUE, result |-> "result", error |-> "NONE", message |-> "OK",
     retryAfterMs |-> Undefined]

errorResponse(code, retryAfterMs) ==
    [success |-> FALSE, result |-> "NONE", error |-> code, message |-> MessageOf(code),
     retryAfterMs |-> retryAfterMs]

ErrorResponses ==
    {errorResponse(code, ra) : code \in ErrorCodes, ra \in {Undefined, Some(ProviderDelayMs)}}

Responses == {successResponse} \cup ErrorResponses

FallbackResponse ==
    [success |-> FALSE, result |-> "NONE", error |-> "UNKNOWN",
     message |-> "Retry logic reached unreachable state", retryAfterMs |-> Undefined]

NoResponse ==
    [success |-> FALSE, result |-> "NONE", error |-> "NONE", message |-> "NONE",
     retryAfterMs |-> Undefined]

----------------------------------------------------------------------------
(* calculateDelay.  Math.random() is the draw rnd / RandDen in [0, 1).     *)
RandomDraws == {0, RandDen - 1}

(* A variant whose jitter factor is 1 instead of 0.25. *)
JitterNumeratorWide(rnd) == 100 * RandDen + (2 * rnd - RandDen) * 100

JitterNumerator(rnd) == 100 * RandDen + (2 * rnd - RandDen) * JitterPercent

(* A variant without the minimum of 1 ms. *)
calculateDelayNoMinimum(attemptNo, baseDelayMs, maxDelayMs, enableJitter, rnd) ==
    LET exponentialDelay == baseDelayMs * Pow2(attemptNo)
        cappedDelay == Min(exponentialDelay, maxDelayMs)
    IN  IF ~enableJitter
        THEN cappedDelay
        ELSE (cappedDelay * JitterNumerator(rnd)) \div (100 * RandDen)

(* A variant without the cap. *)
calculateDelayUncapped(attemptNo, baseDelayMs, maxDelayMs, enableJitter, rnd) ==
    LET exponentialDelay == baseDelayMs * Pow2(attemptNo)
    IN  IF ~enableJitter
        THEN exponentialDelay
        ELSE Max(1, (exponentialDelay * JitterNumerator(rnd)) \div (100 * RandDen))

calculateDelay(attemptNo, baseDelayMs, maxDelayMs, enableJitter, rnd) ==
    LET exponentialDelay == baseDelayMs * Pow2(attemptNo)
        cappedDelay == Min(exponentialDelay, maxDelayMs)
    IN  IF ~enableJitter
        THEN cappedDelay
        ELSE Max(1, (cappedDelay * JitterNumerator(rnd)) \div (100 * RandDen))

----------------------------------------------------------------------------
(* withRetry.                                                              *)
CallIds == {"A", "B"}

(* `attempt` is declared by the for statement: one counter per invocation. *)
AttemptSlotShared(c) == "A"

AttemptSlot(c) == c

LoopContinues(attemptNo, maxRetries) == attemptNo <= maxRetries

RetriesExhaustedEarly(attemptNo, maxRetries) == attemptNo + 1 >= maxRetries

(* A variant that retries once more after the last attempt. *)
RetriesExhaustedLate(attemptNo, maxRetries) == attemptNo > maxRetries

RetriesExhausted(attemptNo, maxRetries) == attemptNo >= maxRetries

(* The delay withRetry uses for the next attempt. *)
RetryDelay(attemptNo, o, response, rnd) ==
    calculateDelay(attemptNo, o.baseDelayMs, o.maxDelayMs, o.enableJitter, rnd)

RetryContextStale(attemptNo, o, delay, response) ==
    [attempt |-> attemptNo, maxRetries |-> o.maxRetries, delayMs |-> delay,
     error |-> response.error, message |-> response.message]

RetryContext(attemptNo, o, delay, response) ==
    [attempt |-> attemptNo + 1, maxRetries |-> o.maxRetries, delayMs |-> delay,
     error |-> response.error, message |-> response.message]

Draws(o) == IF o.enableJitter THEN RandomDraws ELSE {0}

(* Entering the loop body: the loop test, then `await operation()`.        *)
EnterLoop(c, attemptNo) ==
    /\ attempt' = [attempt EXCEPT ![AttemptSlot(c)] = attemptNo]
    /\ IF LoopContinues(attemptNo, opts[c].maxRetries)
       THEN /\ pc' = [pc EXCEPT ![c] = "awaitOp"]
            /\ events' = [events EXCEPT ![c] = Append(@, "invoke")]
            /\ result' = result
       ELSE /\ pc' = [pc EXCEPT ![c] = "done"]
            /\ events' = [events EXCEPT ![c] = Append(@, "return")]
            /\ result' = [result EXCEPT ![c] = FallbackResponse]

(* withRetry is called: options are destructured, the loop starts.         *)
Start(c) ==
    /\ pc[c] = "ready"
    /\ EnterLoop(c, 0)
    /\ UNCHANGED <<opts, operation, opLog, onRetryLog, sleepLog>>
    /\ UNCHANGED nonRetryVars

(* The operation's promise resolves and the response ends the call: it is  *)
(* a success, a non-retryable failure, or the retries are exhausted.       *)
Return(c) ==
    /\ pc[c] = "awaitOp"
    /\ \E r \in operation[c].responses :
         /\ \/ r.success
            \/ ~isRetryableError(r.error)
            \/ RetriesExhausted(attempt[AttemptSlot(c)], opts[c].maxRetries)
         /\ opLog' = [opLog EXCEPT ![c] = Append(@, r)]
         /\ result' = [result EXCEPT ![c] = r]
    /\ pc' = [pc EXCEPT ![c] = "done"]
    /\ events' = [events EXCEPT ![c] = Append(@, "return")]
    /\ UNCHANGED <<opts, operation, attempt, onRetryLog, sleepLog>>
    /\ UNCHANGED nonRetryVars

(* The operation's promise resolves with a retryable failure and retries   *)
(* are left: the delay is calculated, onRetry is told, the sleep starts.   *)
ScheduleRetry(c) ==
    /\ pc[c] = "awaitOp"
    /\ \E r \in operation[c].responses, rnd \in Draws(opts[c]) :
         /\ ~r.success
         /\ isRetryableError(r.error)
         /\ ~RetriesExhausted(attempt[AttemptSlot(c)], opts[c].maxRetries)
         /\ LET delayMs == RetryDelay(attempt[AttemptSlot(c)], opts[c], r, rnd)
                context == RetryContext(attempt[AttemptSlot(c)], opts[c], delayMs, r)
            IN  /\ opLog' = [opLog EXCEPT ![c] = Append(@, r)]
                /\ onRetryLog' = [onRetryLog EXCEPT ![c] =
                                    IF opts[c].onRetry THEN Append(@, context) ELSE @]
                /\ sleepLog' = [sleepLog EXCEPT ![c] = Append(@, delayMs)]
                /\ events' = [events EXCEPT ![c] =
                                IF opts[c].onRetry THEN @ \o <<"onRetry", "sleep">>
                                                   ELSE @ \o <<"sleep">>]
    /\ pc' = [pc EXCEPT ![c] = "sleeping"]
    /\ UNCHANGED <<opts, operation, attempt, result>>
    /\ UNCHANGED nonRetryVars

(* The operation's promise rejects: nothing in withRetry catches it.       *)
OperationRejects(c) ==
    /\ pc[c] = "awaitOp"
    /\ operation[c].mayReject
    /\ pc' = [pc EXCEPT ![c] = "thrown"]
    /\ events' = [events EXCEPT ![c] = Append(@, "throw")]
    /\ UNCHANGED <<opts, operation, attempt, opLog, onRetryLog, sleepLog, result>>
    /\ UNCHANGED nonRetryVars

(* The sleep's timer fires: attempt++, the loop test, the next invocation. *)
TimerFires(c) ==
    /\ pc[c] = "sleeping"
    /\ EnterLoop(c, attempt[AttemptSlot(c)] + 1)
    /\ UNCHANGED <<opts, operation, opLog, onRetryLog, sleepLog>>
    /\ UNCHANGED nonRetryVars

RetryNext ==
    \E c \in CallIds :
        \/ Start(c)
        \/ Return(c)
        \/ ScheduleRetry(c)
        \/ OperationRejects(c)
        \/ TimerFires(c)

----------------------------------------------------------------------------
(* Workspace paths.  A path string is a sequence of one-character          *)
(* strings; node:path is the POSIX flavour (path.sep = "/").               *)

MaxPathLen == 5
SymlinkFuel == 3

PathChars == {"/", "\\", ".", "a", "l"}

sep == <<"/">>

PathSeparatorsSlashOnly == {"/"}

(* The separators of relativePath.split(/[/\\]/). *)
PathSeparators == {"/", "\\"}

FirstIndex(s, chars) == CHOOSE i \in 1 .. Len(s) : s[i] \in chars /\ \A j \in 1 .. i - 1 : s[j] \notin chars

(* String.prototype.split on a set of one-character separators. *)
RECURSIVE Split(_, _)
Split(s, chars) ==
    IF \E i \in 1 .. Len(s) : s[i] \in chars
    THEN LET i == FirstIndex(s, chars)
         IN  <<SubSeq(s, 1, i - 1)>> \o Split(SubSeq(s, i + 1, Len(s)), chars)
    ELSE <<s>>

Includes(parts, x) == \E i \in DOMAIN parts : parts[i] = x

StartsWith(s, prefix) == Len(prefix) <= Len(s) /\ SubSeq(s, 1, Len(prefix)) = prefix

(* The segments path.resolve keeps of an absolute path: empty and "."      *)
(* segments dropped, ".." popping its predecessor.                         *)
RECURSIVE NormalizeSegments(_, _)
NormalizeSegments(parts, acc) ==
    IF parts = <<>> THEN acc
    ELSE LET h == Head(parts)
         IN  IF h = <<>> \/ h = <<".">> THEN NormalizeSegments(Tail(parts), acc)
             ELSE IF h = <<".", ".">>
                  THEN NormalizeSegments(Tail(parts), SubSeq(acc, 1, Len(acc) - 1))
                  ELSE NormalizeSegments(Tail(parts), Append(acc, h))

RECURSIVE JoinSegments(_)
JoinSegments(segs) ==
    IF segs = <<>> THEN <<>> ELSE sep \o Head(segs) \o JoinSegments(Tail(segs))

(* An absolute path string from its segments. *)
ToPath(segs) == IF segs = <<>> THEN sep ELSE JoinSegments(segs)

Segments(p) == NormalizeSegments(Split(p, {"/"}), <<>>)

isAbsolute(p) == Len(p) > 0 /\ p[1] = "/"

(* path.join(a, b), before the normalisation that path.resolve repeats. *)
join(a, b) == IF b = <<>> THEN a ELSE a \o sep \o b

(* path.resolve of an absolute path. *)
resolve(p) == ToPath(Segments(p))

(* path.dirname. *)
dirname(p) ==
    LET cuts == {i \in 2 .. Len(p) : p[i] = "/" /\ \E j \in i + 1 .. Len(p) : p[j] # "/"}
        end == CHOOSE i \in cuts : \A k \in cuts : k <= i
    IN  IF cuts = {}
        THEN (IF isAbsolute(p) THEN sep ELSE <<".">>)
        ELSE IF end = 2 /\ isAbsolute(p) THEN <<"/", "/">>
        ELSE SubSeq(p, 1, end - 1)

(* ---- the filesystem ---- *)
Dir == [kind |-> "dir", target |-> <<>>]
File == [kind |-> "file", target |-> <<>>]
Link(target) == [kind |-> "link", target |-> target]

n_a == <<"a">>
n_l == <<"l">>
n_aa == <<"a", "a">>
n_al == <<"a", "l">>
n_la == <<"l", "a">>
n_ll == <<"l", "l">>
n_dota == <<".", "a">>

(* The workspace /a holds a directory, a file and links that leave it. *)
FsWorkspace ==
    ( <<>> :> Dir ) @@ ( <<n_a>> :> Dir ) @@ ( <<n_l>> :> Dir ) @@ ( <<n_aa>> :> Dir )
    @@ ( <<n_a, n_a>> :> Dir )
    @@ ( <<n_a, n_dota>> :> File )
    @@ ( <<n_a, n_l>> :> Link(<<n_l>>) )
    @@ ( <<n_a, n_aa>> :> Link(<<n_aa>>) )
    @@ ( <<n_a, n_al>> :> Link(<<n_l, n_a>>) )
    @@ ( <<n_a, n_la>> :> Link(<<n_a, n_a>>) )
    @@ ( <<n_a, n_ll>> :> Link(<<n_a, n_ll>>) )

(* The workspace root /a does not exist. *)
FsNoWorkspace ==
    ( <<>> :> Dir ) @@ ( <<n_l>> :> Dir )

(* The workspace root /a is a link to /l, as /var is to /private/var. *)
FsLinkedWorkspace ==
    ( <<>> :> Dir ) @@ ( <<n_a>> :> Link(<<n_l>>) ) @@ ( <<n_l>> :> Dir ) @@ ( <<n_aa>> :> Dir )
    @@ ( <<n_l, n_a>> :> Dir )
    @@ ( <<n_l, n_l>> :> Link(<<n_aa>>) )
    @@ ( <<n_l, n_la>> :> Link(<<n_l, n_a>>) )

FileSystems == {FsWorkspace, FsNoWorkspace, FsLinkedWorkspace}

Ok(p) == [ok |-> TRUE, path |-> p, code |-> "NONE"]
Err(code) == [ok |-> FALSE, path |-> <<>>, code |-> code]

(* fs.realpath: every component is looked up, links are followed. *)
RECURSIVE RealSegments(_, _, _, _)
RealSegments(fs, cur, rest, fuel) ==
    IF rest = <<>> THEN [ok |-> TRUE, segs |-> cur, code |-> "NONE"]
    ELSE LET next == Append(cur, Head(rest))
         IN  IF fs[cur].kind = "file" THEN [ok |-> FALSE, segs |-> <<>>, code |-> "ENOTDIR"]
             ELSE IF next \notin DOMAIN fs THEN [ok |-> FALSE, segs |-> <<>>, code |-> "ENOENT"]
             ELSE IF fs[next].kind = "link"
                  THEN IF fuel = 0 THEN [ok |-> FALSE, segs |-> <<>>, code |-> "ELOOP"]
                       ELSE RealSegments(fs, <<>>, fs[next].target \o Tail(rest), fuel - 1)
                  ELSE RealSegments(fs, next, Tail(rest), fuel)

realpath(fs, p) ==
    LET r == RealSegments(fs, <<>>, Segments(p), SymlinkFuel)
    IN  IF r.ok THEN Ok(ToPath(r.segs)) ELSE Err(r.code)

(* ---- the resolver ---- *)
WorkspaceRoot == <<"/", "a">>

PathResult(p) == [kind |-> "path", path |-> p, error |-> "NONE"]
ErrorResult(code) == [kind |-> "error", path |-> <<>>, error |-> code]
NoResult == [kind |-> "none", path |-> <<>>, error |-> "NONE"]

WithinRootNoSep(p, root) == StartsWith(p, root) \/ p = root

(* The test `x.startsWith(root + path.sep) || x === root`. *)
WithinRoot(p, root) == StartsWith(p, root \o sep) \/ p = root

resolveWorkspacePath(relativePath, workspace) ==
    LET pathParts == Split(relativePath, PathSeparators)
        requestedPath == IF isAbsolute(relativePath) THEN relativePath
                         ELSE join(workspace, relativePath)
        resolved == resolve(requestedPath)
        normalizedWorkspace == resolve(workspace)
    IN  IF Includes(pathParts, <<".", ".">>) THEN ErrorResult("PERMISSION_DENIED")
        ELSE IF ~WithinRoot(resolved, normalizedWorkspace) THEN ErrorResult("PERMISSION_DENIED")
        ELSE PathResult(resolved)

mapSystemErrorToToolError(code) ==
    CASE code = "ENOENT" -> "NOT_FOUND"
      [] code \in {"EACCES", "EPERM"} -> "PERMISSION_DENIED"
      [] code \in {"EISDIR", "ENOTDIR"} -> "VALIDATION_ERROR"
      [] code \in {"EMFILE", "ENFILE", "ENOSPC"} -> "IO_ERROR"
      [] OTHER -> "IO_ERROR"

Finish(r) ==
    /\ ppc' = "done"
    /\ outcome' = r

(* resolveWorkspacePath, called on its own. *)
CallResolveWorkspacePath ==
    /\ ppc = "start"
    /\ request.fn = "resolveWorkspacePath"
    /\ Finish(resolveWorkspacePath(request.relativePath, WorkspaceRoot))
    /\ UNCHANGED <<fsys, request, basicResult, realWorkspace, checkPath, fsCalls>>
    /\ UNCHANGED nonPathVars

(* resolveWorkspacePathSafe up to its first await. *)
SafeBasicValidation ==
    /\ ppc = "start"
    /\ request.fn = "resolveWorkspacePathSafe"
    /\ LET basic == resolveWorkspacePath(request.relativePath, WorkspaceRoot)
       IN  IF basic.kind # "path"
           THEN /\ Finish(basic)
                /\ UNCHANGED <<basicResult, fsCalls>>
           ELSE /\ basicResult' = basic.path
                /\ fsCalls' = Append(fsCalls, WorkspaceRoot)
                /\ ppc' = "realWorkspace"
                /\ outcome' = outcome
    /\ UNCHANGED <<fsys, request, realWorkspace, checkPath>>
    /\ UNCHANGED nonPathVars

(* realpath(workspace) settles; realpath(basicResult) is started. *)
SafeRealWorkspace ==
    /\ ppc = "realWorkspace"
    /\ LET r == realpath(fsys, WorkspaceRoot)
       IN  realWorkspace' = IF r.ok THEN r.path ELSE resolve(WorkspaceRoot)
    /\ fsCalls' = Append(fsCalls, basicResult)
    /\ ppc' = "realPath"
    /\ UNCHANGED <<fsys, request, basicResult, checkPath, outcome>>
    /\ UNCHANGED nonPathVars

(* The loop test of the parent walk, and the realpath(parent) it starts. *)
EnterWalk(cp) ==
    /\ checkPath' = cp
    /\ IF cp # realWorkspace /\ cp # dirname(cp)
       THEN /\ fsCalls' = Append(fsCalls, dirname(cp))
            /\ ppc' = "walk"
            /\ outcome' = outcome
       ELSE /\ Finish(PathResult(basicResult))
            /\ fsCalls' = fsCalls

(* realpath(basicResult) settles. *)
SafeRealPath ==
    /\ ppc = "realPath"
    /\ LET r == realpath(fsys, basicResult)
       IN  IF r.ok
           THEN /\ Finish(IF ~WithinRoot(r.path, realWorkspace)
                          THEN ErrorResult("PERMISSION_DENIED")
                          ELSE PathResult(r.path))
                /\ UNCHANGED <<checkPath, fsCalls>>
           ELSE IF request.requireExists
                THEN /\ Finish(ErrorResult(mapSystemErrorToToolError(r.code)))
                     /\ UNCHANGED <<checkPath, fsCalls>>
                ELSE EnterWalk(basicResult)
    /\ UNCHANGED <<fsys, request, basicResult, realWorkspace>>
    /\ UNCHANGED nonPathVars

(* realpath(parentPath) settles. *)
SafeWalkParent ==
    /\ ppc = "walk"
    /\ LET parentPath == dirname(checkPath)
           r == realpath(fsys, parentPath)
       IN  IF r.ok
           THEN /\ Finish(IF ~WithinRoot(r.path, realWorkspace)
                          THEN ErrorResult("PERMISSION_DENIED")
                          ELSE PathResult(basicResult))
                /\ UNCHANGED <<checkPath, fsCalls>>
           ELSE EnterWalk(parentPath)
    /\ UNCHANGED <<fsys, request, basicResult, realWorkspace>>
    /\ UNCHANGED nonPathVars

PathNext ==
    \/ CallResolveWorkspacePath
    \/ SafeBasicValidation
    \/ SafeRealWorkspace
    \/ SafeRealPath
    \/ SafeWalkParent

RECURSIVE StringsUpTo(_)
StringsUpTo(n) ==
    IF n = 0 THEN {<<>>}
    ELSE LET shorter == StringsUpTo(n - 1)
         IN  shorter \cup {Append(s, ch) : s \in shorter, ch \in PathChars}

Requests ==
    [fn : {"resolveWorkspacePath"}, relativePath : StringsUpTo(MaxPathLen),
     requireExists : {FALSE}]
    \cup
    [fn : {"resolveWorkspacePathSafe"}, relativePath : StringsUpTo(MaxPathLen),
     requireExists : BOOLEAN]

PathInitWith(ppc0, fileSystems, requests) ==
    /\ fsys \in fileSystems
    /\ request \in requests
    /\ ppc = ppc0
    /\ basicResult = <<>>
    /\ realWorkspace = <<>>
    /\ checkPath = <<>>
    /\ fsCalls = <<>>
    /\ outcome = NoResult

IdleRequest == [fn |-> "resolveWorkspacePath", relativePath |-> <<>>, requireExists |-> FALSE]

----------------------------------------------------------------------------
(* ContextManager (src/utils/context.ts).  Strings are tuples of           *)
(* one-character strings, as in the path section.                          *)

MaxSaves == 2
MaxClock == 1
MaxClears == 1

Range(f) == {f[i] : i \in DOMAIN f}

RECURSIVE Concat(_)
Concat(parts) == IF parts = <<>> THEN <<>> ELSE Head(parts) \o Concat(Tail(parts))

EndsWith(s, suffix) ==
    Len(suffix) <= Len(s) /\ SubSeq(s, Len(s) - Len(suffix) + 1, Len(s)) = suffix

IndexOf(seq, x) == CHOOSE i \in DOMAIN seq : seq[i] = x

DecimalDigits == <<"0", "1", "2", "3", "4", "5", "6", "7", "8", "9">>

HexDigits == DecimalDigits \o <<"a", "b", "c", "d", "e", "f">>

UpperLetters ==
    <<"A", "B", "C", "D", "E", "F", "G", "H", "I", "J", "K", "L", "M",
      "N", "O", "P", "Q", "R", "S", "T", "U", "V", "W", "X", "Y", "Z">>

LowerLetters ==
    <<"a", "b", "c", "d", "e", "f", "g", "h", "i", "j", "k", "l", "m",
      "n", "o", "p", "q", "r", "s", "t", "u", "v", "w", "x", "y", "z">>

(* String(n) and n.toString(16) for n >= 0. *)
RECURSIVE ToDecimal(_)
ToDecimal(n) ==
    IF n < 10 THEN <<DecimalDigits[n + 1]>>
    ELSE ToDecimal(n \div 10) \o <<DecimalDigits[(n % 10) + 1]>>

RECURSIVE ToHex(_)
ToHex(n) ==
    IF n < 16 THEN <<HexDigits[n + 1]>>
    ELSE ToHex(n \div 16) \o <<HexDigits[(n % 16) + 1]>>

(* String.prototype.charCodeAt for the characters the model writes. *)
charCodeAt(c) ==
    CASE c \in Range(DecimalDigits) -> 47 + IndexOf(DecimalDigits, c)
      [] c \in Range(UpperLetters) -> 64 + IndexOf(UpperLetters, c)
      [] c \in Range(LowerLetters) -> 96 + IndexOf(LowerLetters, c)
      [] c = " " -> 32
      [] c = "\"" -> 34
      [] c = "," -> 44
      [] c = "-" -> 45
      [] c = "." -> 46
      [] c = ":" -> 58
      [] c = "_" -> 95
      [] c = "{" -> 123
      [] c = "}" -> 125

toLowerCase(s) ==
    [i \in DOMAIN s |->
        IF s[i] \in Range(UpperLetters) THEN LowerLetters[IndexOf(UpperLetters, s[i])] ELSE s[i]]

(* An argument value: a string or a number, with the text JSON gives it. *)
StringValue(text) == [type |-> "string", text |-> text]
NumberValue(n) == [type |-> "number", text |-> ToDecimal(n)]

(* JSON.stringify(args), args being a list of <<key, value>> entries. *)
StringifyValue(v) == IF v.type = "string" THEN <<"\"">> \o v.text \o <<"\"">> ELSE v.text

RECURSIVE StringifyEntries(_)
StringifyEntries(entries) ==
    IF entries = <<>> THEN <<>>
    ELSE LET e == Head(entries)
             one == <<"\"">> \o e[1] \o <<"\"", ":">> \o StringifyValue(e[2])
         IN  IF Len(entries) = 1 THEN one
             ELSE one \o <<",">> \o StringifyEntries(Tail(entries))

StringifyArgs(args) == <<"{">> \o StringifyEntries(args) \o <<"}">>

(* The 32-bit rolling hash of hashArgs, kept as two 16-bit halves:          *)
(* hash = (hash << 5) - hash + char, then hash & hash.                      *)
Half == 65536

RECURSIVE RollingHash(_, _, _)
RollingHash(str, hi, lo) ==
    IF str = <<>> THEN <<hi, lo>>
    ELSE LET low == lo * 31 + charCodeAt(Head(str))
             high == hi * 31 + (low \div Half)
         IN  RollingHash(Tail(str), high % Half, low % Half)

(* Math.abs of the signed 32-bit value held in <<hi, lo>>. *)
AbsHalves(h) ==
    IF h[1] < Half \div 2 THEN h
    ELSE IF h[2] = 0 THEN <<(Half - h[1]) % Half, 0>>
         ELSE <<Half - 1 - h[1], Half - h[2]>>

PadHex4(n) == LET d == ToHex(n) IN SubSeq(<<"0", "0", "0">>, 1, 4 - Len(d)) \o d

hashArgs(args) ==
    LET h == AbsHalves(RollingHash(StringifyArgs(args), 0, 0))
        hex == IF h[1] = 0 THEN ToHex(h[2]) ELSE ToHex(h[1]) \o PadHex4(h[2])
    IN  SubSeq(hex, 1, Min(8, Len(hex)))

AlnumChars == Range(DecimalDigits) \cup Range(UpperLetters) \cup Range(LowerLetters)

(* toolName.replace(/[^\dA-Za-z]/g, '_') *)
sanitizedName(toolName) ==
    [i \in DOMAIN toolName |-> IF toolName[i] \in AlnumChars THEN toolName[i] ELSE "_"]

dotJson == <<".", "j", "s", "o", "n">>

(* Math.random().toString(36).slice(2, 6): up to four base-36 digits. *)
RandomSuffixes == {<<"k", "3", "x", "9">>, <<"7", "f">>}

generateFilenameNoCounter(toolName, args, timestamp, counter, random) ==
    Concat(<<sanitizedName(toolName), <<"_">>, hashArgs(args), <<"_">>, ToDecimal(timestamp),
             <<"_">>, random, dotJson>>)

generateFilename(toolName, args, timestamp, counter, random) ==
    Concat(<<sanitizedName(toolName), <<"_">>, hashArgs(args), <<"_">>, ToDecimal(timestamp),
             <<"_">>, ToDecimal(counter), <<"_">>, random, dotJson>>)

(* getToolDescription *)
getToolDescription(toolName, args) ==
    IF args # <<>> /\ args[1][2].type = "string" /\ Len(args[1][2].text) > 0
    THEN LET firstArg == args[1][2].text
             truncated == IF Len(firstArg) > 50
                          THEN SubSeq(firstArg, 1, 50) \o <<".", ".", ".">>
                          ELSE firstArg
         IN  toolName \o <<":", " ">> \o truncated
    ELSE IF Len(args) > 0
         THEN Concat(<<toolName, <<" ", "w", "i", "t", "h", " ">>, ToDecimal(Len(args)),
                       <<" ", "a", "r", "g", "u", "m", "e", "n", "t", "(", "s", ")">>>>)
         ELSE toolName

----------------------------------------------------------------------------
(* The context directory and the IFileSystem calls made on it.             *)

ContextDir == <<"/", "c">>

joinPath(dir, name) == dir \o <<"/">> \o name

(* The name a path has inside the context directory; <<>> for another path. *)
NameIn(dir, p) ==
    IF StartsWith(p, dir \o <<"/">>) THEN SubSeq(p, Len(dir) + 2, Len(p)) ELSE <<>>

exists(fileMap, p) == NameIn(ContextDir, p) \in DOMAIN fileMap

EmptyContext ==
    [toolName |-> <<>>, toolDescription |-> <<>>, args |-> <<>>, timestamp |-> <<>>,
     taskId |-> Undefined, queryId |-> Undefined, result |-> "NONE"]

(* JSON.stringify(storedContext, null, 2) and the text JSON.parse accepts. *)
JsonText(storedContext) == [kind |-> "json", value |-> storedContext]

(* A file that readFile or JSON.parse rejects: unreadable, truncated, or  *)
(* not JSON at all.                                                        *)
MalformedText == [kind |-> "malformed", value |-> EmptyContext]

name_other == <<"o", ".", "j", "s", "o", "n">>
name_notes == <<"n", ".", "t", "x", "t">>
name_missing == <<"m", ".", "j", "s", "o", "n">>

tool_get_doc == <<"g", "e", "t", "_", "d", "o", "c">>
tool_get_dash_doc == <<"g", "e", "t", "-", "D", "o", "c">>

args_cfg == << <<<<"p">>, StringValue(<<"c", "f", "g">>)>> >>

OtherSessionContext ==
    [toolName |-> tool_get_doc, toolDescription |-> getToolDescription(tool_get_doc, args_cfg),
     args |-> args_cfg, timestamp |-> ToDecimal(0), taskId |-> Undefined,
     queryId |-> Undefined, result |-> "other"]

(* What the directory holds before this manager writes to it. *)
ForeignFiles ==
    (name_other :> JsonText(OtherSessionContext)) @@ (name_notes :> MalformedText)

NoFiles == [n \in {} |-> MalformedText]

(* What saveContext is called with (any input may be given again): a tool *)
(* with one argument, and a tool without arguments whose name sanitizes to *)
(* the first one's.                                                        *)
SaveInputs ==
    {[toolName |-> tool_get_doc, args |-> args_cfg, result |-> "r1",
      taskId |-> Undefined, queryId |-> Some("q1")],
     [toolName |-> tool_get_dash_doc, args |-> <<>>, result |-> "r1",
      taskId |-> Some(1), queryId |-> Undefined]}

SaveSlots == <<"s1", "s2">>

SaveIds == Range(SaveSlots)

IdleInput == CHOOSE i \in SaveInputs : i.result = "r1" /\ i.args = <<>>

IdleSave == [pc |-> "idle", input |-> IdleInput, filename |-> <<>>, content |-> MalformedText]

IdleLoad == [pc |-> "idle", filepaths |-> <<>>, contexts |-> <<>>]

IdleClear ==
    [pc |-> "idle", before |-> {}, queue |-> <<>>, readdirFailed |-> FALSE, failed |-> {}]

(* How a saveContext call settled: it resolved with the filepath (ok), or  *)
(* it rejected with the error of the filesystem call named in `failed`:    *)
(* no await of saveContext is inside a try.  `logged` is the debug message *)
(* of the settling step; a rejection is passed on without one.             *)
SaveEntry(s, failed, filepath) ==
    [op |-> "save", call |-> s, ok |-> failed = "none", failed |-> failed,
     filepath |-> filepath,
     logged |-> IF failed = "none" THEN "Context saved" ELSE "NONE"]

ClearEntry ==
    [op |-> "clear", call |-> "NONE", ok |-> TRUE, failed |-> "none", filepath |-> <<>>,
     logged |-> "Full cleanup completed"]

SavesInFlight == {s \in SaveIds : saveCalls[s].pc \in {"exists", "mkdir", "write"}}

SavesMade ==
    Cardinality(SavesInFlight) + Cardinality({i \in DOMAIN saveLog : saveLog[i].op = "save"})

ClearsMade == Cardinality({i \in DOMAIN saveLog : saveLog[i].op = "clear"})

ClearInProgress == clearCall.pc \in {"exists", "readdir", "unlink", "pointers"}

----------------------------------------------------------------------------
(* selectRelevantContexts (src/utils/context.ts).                          *)

Filepaths(ptrs) == [i \in DOMAIN ptrs |-> ptrs[i].filepath]

MaxQueryWords == 2
MaxPointers == 3

(* The characters of /[\s\-_.,;:!?'"()[\]{}]+/ *)
KeywordSeparators ==
    {" ", "\t", "\n", "\r", "-", "_", ".", ",", ";", ":", "!", "?", "'", "\"",
     "(", ")", "[", "]", "{", "}"}

RECURSIVE SkipRun(_, _)
SkipRun(s, chars) == IF s # <<>> /\ Head(s) \in chars THEN SkipRun(Tail(s), chars) ELSE s

(* String.prototype.split on runs of separator characters. *)
RECURSIVE SplitRuns(_, _)
SplitRuns(s, chars) ==
    IF \E i \in 1 .. Len(s) : s[i] \in chars
    THEN LET i == FirstIndex(s, chars)
         IN  <<SubSeq(s, 1, i - 1)>> \o SplitRuns(SkipRun(SubSeq(s, i, Len(s)), chars), chars)
    ELSE <<s>>

(* .filter((word) => word.length > 2) *)
MinKeywordLength(word) == Len(word) > 2

extractKeywords(text) ==
    SelectSeq(SplitRuns(toLowerCase(text), KeywordSeparators), MinKeywordLength)

(* The scoring loop: one point per query keyword the description includes. *)
RECURSIVE ScoreOf(_, _)
ScoreOf(queryKeywords, descKeywords) ==
    IF queryKeywords = <<>> THEN 0
    ELSE (IF Includes(descKeywords, Head(queryKeywords)) THEN 1 ELSE 0)
             + ScoreOf(Tail(queryKeywords), descKeywords)

(* Array.prototype.sort with (a, b) => b.score - a.score: stable, so equal *)
(* scores keep their order.                                                *)
(* A variant that places an element before those of equal score. *)
RECURSIVE InsertBeforeEqualScore(_, _)
InsertBeforeEqualScore(sorted, m) ==
    IF sorted = <<>> THEN <<m>>
    ELSE IF Head(sorted).score > m.score
         THEN <<Head(sorted)>> \o InsertBeforeEqualScore(Tail(sorted), m)
         ELSE <<m>> \o sorted

RECURSIVE InsertByScore(_, _)
InsertByScore(sorted, m) ==
    IF sorted = <<>> THEN <<m>>
    ELSE IF Head(sorted).score >= m.score
         THEN <<Head(sorted)>> \o InsertByScore(Tail(sorted), m)
         ELSE <<m>> \o sorted

RECURSIVE SortInto(_, _)
SortInto(sorted, rest) ==
    IF rest = <<>> THEN sorted ELSE SortInto(InsertByScore(sorted, Head(rest)), Tail(rest))

Unsorted(matches) == matches

SortByScoreDescending(matches) == SortInto(<<>>, matches)

NoFilepaths(availablePointers) == <<>>

(* availablePointers.map((p) => p.filepath), the fallback result *)
AllFilepaths(availablePointers) == Filepaths(availablePointers)

selectRelevantContexts(query, availablePointers) ==
    IF Len(availablePointers) = 0 THEN <<>>
    ELSE LET queryKeywords == extractKeywords(query)
         IN  IF Len(queryKeywords) = 0 THEN AllFilepaths(availablePointers)
             ELSE LET scored ==
                          [i \in DOMAIN availablePointers |->
                              [pointer |-> availablePointers[i],
                               score |-> ScoreOf(queryKeywords,
                                   extractKeywords(availablePointers[i].toolDescription))]]
                      matches == SelectSeq(scored, LAMBDA m : m.score > 0)
                  IN  IF Len(matches) = 0 THEN AllFilepaths(availablePointers)
                      ELSE LET ranked == SortByScoreDescending(matches)
                           IN  [i \in DOMAIN ranked |-> ranked[i].pointer.filepath]

(* The words queries and descriptions are made of: keywords, a word too    *)
(* short to be one, and a keyword in capitals.                             *)
word_cfg == <<"c", "f", "g">>
word_doc == <<"d", "o", "c">>
word_get == <<"g", "e", "t">>
word_of == <<"o", "f">>
word_DOC == <<"D", "O", "C">>

Vocabulary == {word_cfg, word_doc, word_get, word_of, word_DOC}

RECURSIVE WordLists(_)
WordLists(n) ==
    IF n = 0 THEN {<<>>}
    ELSE LET shorter == WordLists(n - 1)
         IN  shorter \cup {Append(ws, w) : ws \in shorter, w \in Vocabulary}

RECURSIVE JoinWords(_, _)
JoinWords(ws, separator) ==
    IF ws = <<>> THEN <<>>
    ELSE IF Len(ws) = 1 THEN ws[1]
         ELSE ws[1] \o separator \o JoinWords(Tail(ws), separator)

QueryTexts ==
    {JoinWords(ws, separator) : ws \in WordLists(MaxQueryWords),
                                separator \in {<<" ">>, <<",", " ">>}}

DescriptionTexts ==
    {getToolDescription(tool_get_doc, args_cfg), getToolDescription(tool_get_dash_doc, <<>>),
     getToolDescription(word_of, << <<<<"n">>, NumberValue(1)>> >>),
     getToolDescription(word_cfg, << <<<<"p">>, StringValue(<<"D", "o", "c", ".", "c", "f", "g">>)>> >>)}

(* Pointer i of a list has the file name i.json. *)
PointerAt(i, description) ==
    [filepath |-> joinPath(ContextDir, ToDecimal(i) \o dotJson), toolDescription |-> description]

RECURSIVE PointerLists(_)
PointerLists(n) ==
    IF n = 0 THEN {<<>>}
    ELSE LET shorter == PointerLists(n - 1)
         IN  shorter \cup {Append(ps, PointerAt(Len(ps) + 1, d)) :
                              ps \in {l \in shorter : Len(l) = n - 1}, d \in DescriptionTexts}

SelectInputs == [query : QueryTexts, pointers : PointerLists(MaxPointers)]

NotSelected == [done |-> FALSE, filepaths |-> <<>>]

CallSelectRelevantContexts ==
    /\ ~selOutput.done
    /\ selOutput' = [done |-> TRUE,
                     filepaths |-> selectRelevantContexts(selInput.query, selInput.pointers)]
    /\ UNCHANGED selInput
    /\ UNCHANGED nonSelVars

SelectNext == CallSelectRelevantContexts

SelectInitWith(inputs) ==
    /\ selInput \in inputs
    /\ selOutput = NotSelected

IdleSelectInput == [query |-> <<>>, pointers |-> <<>>]

----------------------------------------------------------------------------
(* The operations of ContextManager, one action per step between awaits.   *)

(* this.pointers after writeFile settled: the pointer is pushed only when  *)
(* the write succeeded (push follows the await).                           *)
PointersAfterWriteAlways(ok, ptrs, pointer) == Append(ptrs, pointer)

PointersAfterWrite(ok, ptrs, pointer) == IF ok THEN Append(ptrs, pointer) ELSE ptrs

FreeSlots == SaveIds \ SavesInFlight


(* saveContext is called; it runs up to its first await, exists(contextDir). *)
(* Tool results are saved while tools execute, not while clear() runs at  *)
(* the session's end.                                                      *)
saveContext(s, input) ==
    /\ s \in FreeSlots
    /\ \A other \in FreeSlots : IndexOf(SaveSlots, s) <= IndexOf(SaveSlots, other)
    /\ ~ClearInProgress
    /\ SavesMade < MaxSaves
    /\ saveCalls' = [saveCalls EXCEPT ![s] = [IdleSave EXCEPT !.pc = "exists", !.input = input]]
    /\ loadCall' = IdleLoad
    /\ queryResult' = <<>>
    /\ clearCall' = IdleClear
    /\ UNCHANGED <<dirExists, files, pointers, filenameCounter, clock, writeLog, saveLog>>
    /\ UNCHANGED nonCtxVars

(* From generateFilename to the call of writeFile. *)
StartWrite(s, random) ==
    LET input == saveCalls[s].input
        filename == generateFilename(input.toolName, input.args, clock, filenameCounter, random)
        storedContext ==
            [toolName |-> input.toolName,
             toolDescription |-> getToolDescription(input.toolName, input.args),
             args |-> input.args, timestamp |-> ToDecimal(clock),
             taskId |-> input.taskId, queryId |-> input.queryId, result |-> input.result]
    IN  /\ filenameCounter' = filenameCounter + 1
        /\ writeLog' = Append(writeLog, joinPath(ContextDir, filename))
        /\ saveCalls' = [saveCalls EXCEPT ![s] =
                            [pc |-> "write", input |-> input, filename |-> filename,
                             content |-> JsonText(storedContext)]]

(* exists(contextDir) settles. *)
SaveExistsSettles(s) ==
    /\ saveCalls[s].pc = "exists"
    /\ IF dirExists
       THEN \E random \in RandomSuffixes : StartWrite(s, random)
       ELSE /\ saveCalls' = [saveCalls EXCEPT ![s].pc = "mkdir"]
            /\ UNCHANGED <<filenameCounter, writeLog>>
    /\ UNCHANGED <<dirExists, files, pointers, clock, saveLog, loadCall, clearCall, queryResult>>
    /\ UNCHANGED nonCtxVars

(* mkdir(contextDir) settles: the directory is made, or the call rejects. *)
SaveMkdirSettles(s) ==
    /\ saveCalls[s].pc = "mkdir"
    /\ \/ /\ dirExists' = TRUE
          /\ \E random \in RandomSuffixes : StartWrite(s, random)
          /\ saveLog' = saveLog
       \/ /\ saveCalls' = [saveCalls EXCEPT ![s] = IdleSave]
          /\ saveLog' = Append(saveLog, SaveEntry(s, "mkdir", <<>>))
          /\ UNCHANGED <<dirExists, filenameCounter, writeLog>>
    /\ UNCHANGED <<files, pointers, clock, loadCall, clearCall, queryResult>>
    /\ UNCHANGED nonCtxVars

(* writeFile settles: everything was written, or the call rejects having   *)
(* written nothing or a part of the text.                                  *)
SaveWriteSettles(s) ==
    /\ saveCalls[s].pc = "write"
    /\ LET call == saveCalls[s]
           filepath == joinPath(ContextDir, call.filename)
           pointer ==
               [filepath |-> filepath, filename |-> call.filename,
                toolName |-> call.input.toolName,
                toolDescription |-> call.content.value.toolDescription,
                args |-> call.input.args, taskId |-> call.input.taskId,
                queryId |-> call.input.queryId]
       IN  \E written \in {"all", "part", "none"} :
               /\ files' = CASE written = "all" -> (call.filename :> call.content) @@ files
                             [] written = "part" -> (call.filename :> MalformedText) @@ files
                             [] written = "none" -> files
               /\ pointers' = PointersAfterWrite(written = "all", pointers, pointer)
               /\ saveLog' = Append(saveLog,
                      SaveEntry(s, IF written = "all" THEN "none" ELSE "writeFile", filepath))
               /\ saveCalls' = [saveCalls EXCEPT ![s] = IdleSave]
    /\ UNCHANGED <<dirExists, filenameCounter, clock, writeLog, loadCall, clearCall, queryResult>>
    /\ UNCHANGED nonCtxVars

(* Time passes: Date.now() moves to the next millisecond.  Only            *)
(* generateFilename and the timestamp read the clock, so time is let pass  *)
(* only while a call has yet to read it.                                   *)
Tick ==
    /\ clock < MaxClock
    /\ \E s \in SaveIds : saveCalls[s].pc \in {"exists", "mkdir"}
    /\ clock' = clock + 1
    /\ UNCHANGED <<dirExists, files, pointers, filenameCounter, saveCalls, writeLog, saveLog,
                   loadCall, clearCall, queryResult>>
    /\ UNCHANGED nonCtxVars

(* One pass of loadContexts' loop body: exists, readFile, JSON.parse, push; *)
(* a missing file is skipped and every error is caught and skipped.        *)
loadOneStopping(fileMap, filepath, contexts) ==
    IF exists(fileMap, filepath) /\ fileMap[NameIn(ContextDir, filepath)].kind = "json"
    THEN Append(contexts, fileMap[NameIn(ContextDir, filepath)].value)
    ELSE <<>>

loadOne(fileMap, filepath, contexts) ==
    IF exists(fileMap, filepath)
    THEN LET content == fileMap[NameIn(ContextDir, filepath)]
         IN  IF content.kind = "json" THEN Append(contexts, content.value) ELSE contexts
    ELSE contexts

(* loadContexts' loop over the files given. *)
RECURSIVE loadAll(_, _, _)
loadAll(fileMap, filepaths, contexts) ==
    IF filepaths = <<>> THEN contexts
    ELSE loadAll(fileMap, Tail(filepaths), loadOne(fileMap, Head(filepaths), contexts))

(* The lists loadContexts is given: the pointers' files, alone and mixed   *)
(* with missing, malformed and foreign files.                              *)
LoadRequests ==
    LET own == Filepaths(pointers)
        at(name) == <<joinPath(ContextDir, name)>>
    IN  {own,
         Concat(<<at(name_missing), at(name_other), own, at(name_notes), at(name_other),
                  <<ContextDir>>>>)}

(* loadContexts runs to its end.  No file it is given changes meanwhile:   *)
(* a save only adds a file of a new name, and clear() is not running.      *)
loadContexts(filepaths) ==
    /\ SavesInFlight = {}
    /\ ~ClearInProgress
    /\ loadCall' = [pc |-> "resolved", filepaths |-> filepaths,
                    contexts |-> loadAll(files, filepaths, <<>>)]
    /\ queryResult' = <<>>
    /\ clearCall' = IdleClear
    /\ UNCHANGED <<dirExists, files, pointers, filenameCounter, clock, saveCalls, writeLog,
                   saveLog>>
    /\ UNCHANGED nonCtxVars

RECURSIVE SetToSeq(_)
SetToSeq(S) ==
    IF S = {} THEN <<>>
    ELSE LET x == CHOOSE x \in S : TRUE IN <<x>> \o SetToSeq(S \ {x})

(* readdir(contextDir), and the names clearContextDir goes on to unlink. *)
readdir(fileMap) == SetToSeq(DOMAIN fileMap)

(* A variant that unlinks every entry of the directory. *)
EveryName(names) == names

JsonNames(names) == SelectSeq(names, LAMBDA n : EndsWith(n, dotJson))

(* clear() is called, at the session's end: no save is in flight. *)
clear ==
    /\ ~ClearInProgress
    /\ SavesInFlight = {}
    /\ ClearsMade < MaxClears
    /\ clearCall' = [IdleClear EXCEPT !.pc = "exists", !.before = DOMAIN files]
    /\ saveCalls' = saveCalls
    /\ loadCall' = IdleLoad
    /\ queryResult' = <<>>
    /\ UNCHANGED <<dirExists, files, pointers, filenameCounter, clock, writeLog, saveLog>>
    /\ UNCHANGED nonCtxVars

(* clearContextDir: exists(contextDir) settles. *)
ClearExistsSettles ==
    /\ clearCall.pc = "exists"
    /\ clearCall' = [clearCall EXCEPT !.pc = IF dirExists THEN "readdir" ELSE "pointers"]
    /\ UNCHANGED <<dirExists, files, pointers, filenameCounter, clock, saveCalls, writeLog,
                   saveLog, loadCall, queryResult>>
    /\ UNCHANGED nonCtxVars

(* clearContextDir: readdir settles; a rejection is caught. *)
ClearReaddirSettles ==
    /\ clearCall.pc = "readdir"
    /\ \E ok \in BOOLEAN :
           LET queue == IF ok THEN JsonNames(readdir(files)) ELSE <<>>
           IN  clearCall' = [clearCall EXCEPT !.queue = queue, !.readdirFailed = ~ok,
                                              !.pc = IF queue = <<>> THEN "pointers" ELSE "unlink"]
    /\ UNCHANGED <<dirExists, files, pointers, filenameCounter, clock, saveCalls, writeLog,
                   saveLog, loadCall, queryResult>>
    /\ UNCHANGED nonCtxVars

(* clearContextDir: one unlink settles; a rejection is caught. *)
ClearUnlinkSettles ==
    /\ clearCall.pc = "unlink"
    /\ LET name == Head(clearCall.queue)
       IN  \E ok \in BOOLEAN :
               /\ files' = IF ok THEN [n \in DOMAIN files \ {name} |-> files[n]] ELSE files
               /\ clearCall' = [clearCall EXCEPT
                                   !.queue = Tail(@),
                                   !.failed = IF ok THEN @ ELSE @ \cup {name},
                                   !.pc = IF Len(clearCall.queue) = 1 THEN "pointers" ELSE "unlink"]
    /\ UNCHANGED <<dirExists, pointers, filenameCounter, clock, saveCalls, writeLog, saveLog,
                   loadCall, queryResult>>
    /\ UNCHANGED nonCtxVars

(* clear: clearContextDir has returned; clearPointers runs. *)
clearPointers ==
    /\ clearCall.pc = "pointers"
    /\ pointers' = <<>>
    /\ saveLog' = Append(saveLog, ClearEntry)
    /\ clearCall' = [clearCall EXCEPT !.pc = "done"]
    /\ UNCHANGED <<dirExists, files, filenameCounter, clock, saveCalls, writeLog, loadCall,
                   queryResult>>
    /\ UNCHANGED nonCtxVars

QueryIds == {"q1"}
TaskIds == {1}

(* A pointer query, made between operations; it returns copies. *)
Returns(ptrs) ==
    /\ SavesInFlight = {} /\ ~ClearInProgress
    /\ queryResult' = ptrs
    /\ saveCalls' = saveCalls
    /\ loadCall' = IdleLoad
    /\ clearCall' = IdleClear
    /\ UNCHANGED <<dirExists, files, pointers, filenameCounter, clock, writeLog, saveLog>>
    /\ UNCHANGED nonCtxVars

getAllPointers == Returns(pointers)

getPointersForQuery(queryId) ==
    Returns(SelectSeq(pointers, LAMBDA p : p.queryId = Some(queryId)))

getPointersForTask(taskId) ==
    Returns(SelectSeq(pointers, LAMBDA p : p.taskId = Some(taskId)))

(* The queries contexts are selected for when the answer is composed. *)
AnswerQueries == {JoinWords(<<word_get, word_cfg>>, <<" ">>), word_of}

(* selectRelevantContexts, given the manager's own pointers. *)
SelectForAnswer(query) == Returns(selectRelevantContexts(query, pointers))

ContextNext ==
    \/ \E s \in SaveIds, input \in SaveInputs : saveContext(s, input)
    \/ \E s \in SaveIds : SaveExistsSettles(s)
    \/ \E s \in SaveIds : SaveMkdirSettles(s)
    \/ \E s \in SaveIds : SaveWriteSettles(s)
    \/ Tick
    \/ \E filepaths \in LoadRequests : loadContexts(filepaths)
    \/ clear
    \/ ClearExistsSettles
    \/ ClearReaddirSettles
    \/ ClearUnlinkSettles
    \/ clearPointers
    \/ getAllPointers
    \/ \E queryId \in QueryIds : getPointersForQuery(queryId)
    \/ \E taskId \in TaskIds : getPointersForTask(taskId)
    \/ \E query \in AnswerQueries : SelectForAnswer(query)

ContextInitWith(dirChoices) ==
    /\ dirExists \in dirChoices
    /\ files = IF dirExists THEN ForeignFiles ELSE NoFiles
    /\ pointers = <<>>
    /\ filenameCounter = 0
    /\ clock = 0
    /\ saveCalls = [s \in SaveIds |-> IdleSave]
    /\ writeLog = <<>>
    /\ saveLog = <<>>
    /\ loadCall = IdleLoad
    /\ clearCall = IdleClear
    /\ queryResult = <<>>

----------------------------------------------------------------------------
(* The agent orchestrator (src/agent/agent.ts is not among the sources;    *)
(* the state machine is the one of the specification, sections 4.6 and 5). *)
(* One session: a query is submitted, the model is awaited, the tool calls *)
(* of a model turn are executed, in any order and overlapping, and the     *)
(* model is awaited again, until it answers or the user aborts.            *)

MaxRounds == 2

MaxPersistFailures == 1

ToolCallIds == {"t1", "t2"}

OrchStates ==
    {"Idle", "AwaitingModel", "ToolCallsRequested", "ExecutingTools", "Answered", "Canceled"}

TerminalStates == {"Answered", "Canceled"}

NoModelResponse == [toolCalls |-> {}, content |-> "NONE"]

(* The responses the model may give: tool-call requests, or a final text. *)
ToolCallResponses ==
    {[toolCalls |-> requested, content |-> ""] : requested \in SUBSET ToolCallIds \ {{}}}

FinalResponses == {[toolCalls |-> {}, content |-> text] : text \in {"answer", ""}}

NoToolCalls == [c \in ToolCallIds |-> "none"]

(* A variant that does not wait for the tool calls still running. *)
SettledOrRunning == {"none", "completed", "failed", "canceled", "running"}

(* A tool call the orchestrator no longer waits for. *)
SettledStatuses == {"none", "completed", "failed", "canceled"}

(* A lifecycle callback and what it is given: the tool call, the answer. *)
Callback(name, arg) == [callback |-> name, arg |-> arg]

(* A variant that leaves onToolEnd out. *)
ToolEndCallbacksNone(c) == <<>>

(* The callbacks made when a tool call has settled. *)
ToolEndCallbacks(c) == <<Callback("onToolEnd", c)>>

(* A variant that ends the run once the tools of the first turn are done. *)
StateAfterToolsAnswered(statuses) == "Answered"

(* Where the orchestrator goes once the tool calls of a turn are settled. *)
StateAfterTools(statuses) == "AwaitingModel"

(* The tool calls settled so far whose result could not be persisted. *)
PersistFailures ==
    Cardinality({i \in DOMAIN callbackLog : callbackLog[i].callback = "onToolEnd"})
        - Cardinality(contextFiles)

(* A variant that hands every outcome to the model as a result. *)
ToolResultAlwaysResult(status) == "tool-result"

(* What the model is given for a settled tool call: its result, or the     *)
(* text of its failure as a failed tool result.                            *)
ToolResultFor(status) ==
    IF status = "failed" THEN "failed-tool-result" ELSE "tool-result"

(* run(query): the query is submitted and the model is invoked. *)
run ==
    /\ orchState = "Idle"
    /\ orchState' = "AwaitingModel"
    /\ callbackLog' = callbackLog \o <<Callback("onAgentStart", "NONE"),
                                       Callback("onLLMStart", "NONE")>>
    /\ UNCHANGED <<llmResponse, toolCalls, rounds, cancellationSignal>>
    /\ UNCHANGED <<toolResults, contextFiles>>
    /\ UNCHANGED nonOrchVars

(* The model's response contains tool-call requests. *)
ModelRequestsTools(modelResponse) ==
    /\ orchState = "AwaitingModel"
    /\ rounds < MaxRounds
    /\ orchState' = "ToolCallsRequested"
    /\ llmResponse' = modelResponse
    /\ toolCalls' = [c \in ToolCallIds |->
                        IF c \in modelResponse.toolCalls THEN "requested" ELSE "none"]
    /\ callbackLog' = Append(callbackLog, Callback("onLLMEnd", "NONE"))
    /\ UNCHANGED <<rounds, cancellationSignal>>
    /\ UNCHANGED <<toolResults, contextFiles>>
    /\ UNCHANGED nonOrchVars

(* The model's response has no tool calls: the final text is emitted. *)
ModelAnswers(modelResponse) ==
    /\ orchState = "AwaitingModel"
    /\ orchState' = "Answered"
    /\ llmResponse' = modelResponse
    /\ callbackLog' = callbackLog \o <<Callback("onLLMEnd", "NONE"),
                                       Callback("onAgentEnd", modelResponse.content)>>
    /\ UNCHANGED <<toolCalls, rounds, cancellationSignal>>
    /\ UNCHANGED <<toolResults, contextFiles>>
    /\ UNCHANGED nonOrchVars

(* The requested tool calls are handed to the tool registry. *)
BeginExecutingTools ==
    /\ orchState = "ToolCallsRequested"
    /\ orchState' = "ExecutingTools"
    /\ UNCHANGED <<llmResponse, toolCalls, rounds, cancellationSignal, callbackLog>>
    /\ UNCHANGED <<toolResults, contextFiles>>
    /\ UNCHANGED nonOrchVars

(* One requested tool call starts to execute. *)
ToolStarts(c) ==
    /\ orchState = "ExecutingTools"
    /\ toolCalls[c] = "requested"
    /\ toolCalls' = [toolCalls EXCEPT ![c] = "running"]
    /\ callbackLog' = Append(callbackLog, Callback("onToolStart", c))
    /\ UNCHANGED <<orchState, llmResponse, rounds, cancellationSignal>>
    /\ UNCHANGED <<toolResults, contextFiles>>
    /\ UNCHANGED nonOrchVars

(* One running tool call settles: its result, or its failure caught at the *)
(* tool boundary, is kept for the model and persisted through the context  *)
(* manager; a failure to persist is logged and skipped.                    *)
ToolSettles(c, status, persisted) ==
    /\ orchState = "ExecutingTools"
    /\ toolCalls[c] = "running"
    /\ ~persisted => PersistFailures < MaxPersistFailures
    /\ toolCalls' = [toolCalls EXCEPT ![c] = status]
    /\ callbackLog' = callbackLog \o ToolEndCallbacks(c)
    /\ contextFiles' = IF persisted THEN contextFiles \cup {<<rounds, c>>} ELSE contextFiles
    /\ UNCHANGED <<orchState, llmResponse, rounds, cancellationSignal, toolResults>>
    /\ UNCHANGED nonOrchVars

(* Every tool call of the turn has settled: the results are appended to    *)
(* the conversation and the model is invoked again.                        *)
ToolsAllSettled ==
    /\ orchState = "ExecutingTools"
    /\ \A c \in ToolCallIds : toolCalls[c] \in SettledStatuses
    /\ orchState' = StateAfterTools(toolCalls)
    /\ rounds' = rounds + 1
    /\ toolCalls' = NoToolCalls
    /\ callbackLog' = Append(callbackLog, Callback("onLLMStart", "NONE"))
    /\ toolResults' = Append(toolResults,
           [c \in llmResponse.toolCalls |-> ToolResultFor(toolCalls[c])])
    /\ UNCHANGED <<llmResponse, cancellationSignal, contextFiles>>
    /\ UNCHANGED nonOrchVars

(* A variant in which the signal does not reach the tool calls. *)
StatusAfterCancelUndelivered(status) == status

(* What the cancellation signal makes of a tool call: one in flight is     *)
(* canceled, a settled one keeps its result.                               *)
StatusAfterCancel(status) ==
    IF status \in {"requested", "running"} THEN "canceled" ELSE status

(* The user aborts: the signal is raised, reaches the tool calls in flight *)
(* and the session is canceled.                                            *)
Cancel ==
    /\ orchState \notin TerminalStates
    /\ orchState' = "Canceled"
    /\ cancellationSignal' = TRUE
    /\ toolCalls' = [c \in ToolCallIds |-> StatusAfterCancel(toolCalls[c])]
    /\ UNCHANGED <<llmResponse, rounds, callbackLog>>
    /\ UNCHANGED <<toolResults, contextFiles>>
    /\ UNCHANGED nonOrchVars

OrchestratorNext ==
    \/ run
    \/ \E modelResponse \in ToolCallResponses : ModelRequestsTools(modelResponse)
    \/ \E modelResponse \in FinalResponses : ModelAnswers(modelResponse)
    \/ BeginExecutingTools
    \/ \E c \in ToolCallIds : ToolStarts(c)
    \/ \E c \in ToolCallIds, status \in {"completed", "failed"}, persisted \in BOOLEAN :
           ToolSettles(c, status, persisted)
    \/ ToolsAllSettled
    \/ Cancel

OrchInitWith(states) ==
    /\ orchState \in states
    /\ llmResponse = NoModelResponse
    /\ toolCalls = NoToolCalls
    /\ rounds = 0
    /\ cancellationSignal = FALSE
    /\ callbackLog = <<>>
    /\ toolResults = <<>>
    /\ contextFiles = {}

----------------------------------------------------------------------------
(* InteractiveShell (src/components/InteractiveShell.tsx) with the         *)
(* callbacks of createCallbacks (src/cli/callbacks.ts).  One mounted       *)
(* component: the configuration loads, keys arrive through useInput, a     *)
(* submitted query starts agent.runStream, and the run calls back into the *)
(* component's state.  setState is taken to be in effect when the next     *)
(* key or callback is handled.                                             *)

MaxRuns == 2

MaxMessages == 3

MaxChunks == 1

RunIds == 1 .. MaxRuns

cmd_exit == <<"/", "e", "x", "i", "t">>

cmd_quit == <<"/", "q", "u", "i", "t">>

cmd_help == <<"/", "h", "e", "l", "p">>

cmd_clear == <<"/", "c", "l", "e", "a", "r">>

(* What the user types: every prefix of one of these lines. *)
TypedLines == {cmd_exit, cmd_quit, cmd_help, cmd_clear, <<" ", "a", " ">>, <<" ", " ">>}

TypedTexts == UNION {{SubSeq(line, 1, n) : n \in 0 .. Len(line)} : line \in TypedLines}

TypedChars == UNION {Range(line) : line \in TypedLines}

RECURSIVE trimStart(_)
trimStart(str) ==
    IF str # <<>> /\ Head(str) = " " THEN trimStart(Tail(str)) ELSE str

RECURSIVE trimEnd(_)
trimEnd(str) ==
    IF str # <<>> /\ str[Len(str)] = " " THEN trimEnd(SubSeq(str, 1, Len(str) - 1)) ELSE str

(* String.prototype.trim *)
trim(str) == trimEnd(trimStart(str))

RunsInProgress == {r \in RunIds : agentRuns[r] \in {"started", "streaming"}}

RunsStarted == {r \in RunIds : agentRuns[r] # "none"}

(* loadConfiguration settles: the config is kept, or its error message. *)
LoadConfigSettles(success) ==
    /\ ~exited
    /\ ~shell.configLoaded
    /\ shell' = IF success
                THEN [shell EXCEPT !.config = "loaded", !.configLoaded = TRUE]
                ELSE [shell EXCEPT !.configLoaded = TRUE, !.configError = TRUE]
    /\ UNCHANGED <<agentRef, agentRuns, exited>>
    /\ UNCHANGED nonShellVars

(* useInput: Ctrl+C exits, also while loading or processing. *)
KeyCtrlC ==
    /\ ~exited
    /\ exited' = TRUE
    /\ UNCHANGED <<shell, agentRef, agentRuns>>
    /\ UNCHANGED nonShellVars

(* useInput: other keys are dropped until the config is loaded and while   *)
(* the agent is working.                                                   *)
InputAccepted == ~exited /\ shell.configLoaded /\ ~shell.isProcessing

(* useInput: backspace or delete. *)
KeyBackspace ==
    /\ InputAccepted
    /\ shell.input # <<>>
    /\ shell' = [shell EXCEPT !.input = SubSeq(@, 1, Len(@) - 1)]
    /\ UNCHANGED <<agentRef, agentRuns, exited>>
    /\ UNCHANGED nonShellVars

(* useInput: a single character. *)
KeyChar(ch) ==
    /\ InputAccepted
    /\ Append(shell.input, ch) \in TypedTexts
    /\ shell' = [shell EXCEPT !.input = Append(@, ch)]
    /\ UNCHANGED <<agentRef, agentRuns, exited>>
    /\ UNCHANGED nonShellVars

NoError == "null"

(* handleSubmit, past the commands: the user message is added and the      *)
(* component shows itself processing.                                      *)
Submitted ==
    [shell EXCEPT !.input = <<>>, !.messages = Append(@, "user"), !.isProcessing = TRUE,
                  !.spinnerMessage = "Thinking...", !.streamingOutput = 0, !.error = NoError]

(* useInput: return calls handleSubmit, which runs up to its first await.  *)
KeyReturn ==
    /\ InputAccepted
    /\ Len(shell.messages) < MaxMessages
    /\ LET query == trim(shell.input)
           initialized == agentRef \/ shell.config # "null"
       IN  CASE query = <<>> -> UNCHANGED shellVars
             [] query \in {cmd_exit, cmd_quit} ->
                    exited' = TRUE /\ UNCHANGED <<shell, agentRef, agentRuns>>
             [] query = cmd_help ->
                    /\ shell' = [shell EXCEPT !.input = <<>>, !.messages = Append(@, "system")]
                    /\ UNCHANGED <<agentRef, agentRuns, exited>>
             [] query = cmd_clear ->
                    /\ shell' = [shell EXCEPT !.input = <<>>, !.messages = <<>>,
                                              !.streamingOutput = 0, !.error = NoError]
                    /\ UNCHANGED <<agentRef, agentRuns, exited>>
             [] OTHER ->
                    IF initialized
                    THEN /\ Cardinality(RunsStarted) < MaxRuns
                         /\ shell' = Submitted
                         /\ agentRef' = TRUE
                         /\ agentRuns' =
                                [agentRuns EXCEPT ![Cardinality(RunsStarted) + 1] = "started"]
                         /\ UNCHANGED exited
                    ELSE /\ shell' = [Submitted EXCEPT !.error = "INITIALIZATION_ERROR",
                                                       !.isProcessing = FALSE]
                         /\ UNCHANGED <<agentRef, agentRuns, exited>>
    /\ UNCHANGED nonShellVars

(* runStream reaches the start of the stream and calls onSpinnerStop,      *)
(* which hides the spinner and sets isProcessing to false.                 *)
RunSpinnerStop(r) ==
    /\ ~exited
    /\ agentRuns[r] = "started"
    /\ agentRuns' = [agentRuns EXCEPT ![r] = "streaming"]
    /\ shell' = [shell EXCEPT !.spinnerMessage = "", !.isProcessing = FALSE]
    /\ UNCHANGED <<agentRef, exited>>
    /\ UNCHANGED nonShellVars

(* runStream yields a chunk: onLLMStream appends it to the output. *)
RunStreams(r) ==
    /\ ~exited
    /\ agentRuns[r] = "streaming"
    /\ shell.streamingOutput < MaxChunks
    /\ shell' = [shell EXCEPT !.streamingOutput = @ + 1]
    /\ UNCHANGED <<agentRef, agentRuns, exited>>
    /\ UNCHANGED nonShellVars

(* runStream ends: onAgentEnd sets isProcessing to false and onComplete    *)
(* moves the answer into the messages.                                     *)
RunEnds(r) ==
    /\ ~exited
    /\ agentRuns[r] = "streaming"
    /\ agentRuns' = [agentRuns EXCEPT ![r] = "ended"]
    /\ shell' = [shell EXCEPT !.messages = Append(@, "assistant"), !.streamingOutput = 0,
                              !.isProcessing = FALSE]
    /\ UNCHANGED <<agentRef, exited>>
    /\ UNCHANGED nonShellVars

(* runStream throws: handleSubmit's catch shows the error. *)
RunThrows(r) ==
    /\ ~exited
    /\ agentRuns[r] \in {"started", "streaming"}
    /\ agentRuns' = [agentRuns EXCEPT ![r] = "failed"]
    /\ shell' = [shell EXCEPT !.error = "UNKNOWN", !.isProcessing = FALSE]
    /\ UNCHANGED <<agentRef, exited>>
    /\ UNCHANGED nonShellVars

ShellNext ==
    \/ \E success \in BOOLEAN : LoadConfigSettles(success)
    \/ KeyCtrlC
    \/ KeyBackspace
    \/ \E ch \in TypedChars : KeyChar(ch)
    \/ KeyReturn
    \/ \E r \in RunIds : RunSpinnerStop(r)
    \/ \E r \in RunIds : RunStreams(r)
    \/ \E r \in RunIds : RunEnds(r)
    \/ \E r \in RunIds : RunThrows(r)

ShellInitWith(exitedChoices) ==
    /\ shell = [input |-> <<>>, isProcessing |-> FALSE, spinnerMessage |-> "",
                streamingOutput |-> 0, messages |-> <<>>, error |-> NoError,
                config |-> "null", configLoaded |-> FALSE, configError |-> FALSE]
    /\ agentRef = FALSE
    /\ agentRuns = [r \in RunIds |-> "none"]
    /\ exited \in exitedChoices

----------------------------------------------------------------------------
(* The model invocation client (src/model/llm.ts is not among the sources; *)
(* the client is the one of the specification, section 4.3, with the       *)
(* lifecycle and flows of docs/architecture.md).  One client, one call at  *)
(* a time: invoke() and stream() get the underlying client through         *)
(* getClient() on every attempt and run under the retry policy.            *)

MaxLLMCalls == 3

ClientMaxRetries == 1

MaxStreamChunks == 1

ProviderNames == {"openai", "anthropic"}

NoLLMCall == [kind |-> "none", pc |-> "idle", attempt |-> 0, chunks |-> 0, number |-> 0]

SettledCallStates == {"idle", "returned", "failed", "streaming", "ended", "iterationFailed"}

(* A variant that never finds the client cached. *)
ClientCachedNever(cached, providerName) == FALSE

(* getClient: the cached client is returned when it was made for the       *)
(* provider now selected.                                                  *)
ClientCached(cached, providerName) == cached = Some(providerName)

(* A variant that fires the start notification inside the retry loop. *)
RetryNotificationsWithStart(kind) ==
    IF kind = "stream" THEN <<"onRetry", "onStreamStart">> ELSE <<"onRetry">>

(* The callbacks of one retry. *)
RetryNotifications(kind) == <<"onRetry">>

(* The configuration selects another provider, between two calls. *)
SelectProvider(providerName) ==
    /\ llmCall.pc \in SettledCallStates \ {"streaming"}
    /\ providerName # selectedProvider
    /\ selectedProvider' = providerName
    /\ UNCHANGED <<cachedClient, factoryCalls, llmCall, llmNotifications>>
    /\ UNCHANGED nonClientVars

(* invoke(input) is called. *)
CallInvoke ==
    /\ llmCall.pc \in SettledCallStates
    /\ llmCall.number < MaxLLMCalls
    /\ llmCall' = [kind |-> "invoke", pc |-> "attempting", attempt |-> 0, chunks |-> 0,
                   number |-> llmCall.number + 1]
    /\ llmNotifications' = <<>>
    /\ UNCHANGED <<selectedProvider, cachedClient, factoryCalls>>
    /\ UNCHANGED nonClientVars

(* stream(input) is called: the start notification fires, before the retry *)
(* loop.                                                                   *)
CallStream ==
    /\ llmCall.pc \in SettledCallStates
    /\ llmCall.number < MaxLLMCalls
    /\ llmCall' = [kind |-> "stream", pc |-> "attempting", attempt |-> 0, chunks |-> 0,
                   number |-> llmCall.number + 1]
    /\ llmNotifications' = <<"onStreamStart">>
    /\ UNCHANGED <<selectedProvider, cachedClient, factoryCalls>>
    /\ UNCHANGED nonClientVars

(* invokeOnce / streamOnce: getClient, creating the client through the     *)
(* provider factory when none is cached for the provider, then the         *)
(* provider call; a retryable failure with retries left is retried.        *)
AttemptOnce(factoryOk, attemptOutcome) ==
    /\ llmCall.pc = "attempting"
    /\ LET reused == ClientCached(cachedClient, selectedProvider)
           ready == reused \/ factoryOk
       IN  /\ factoryCalls' =
                  IF reused THEN factoryCalls
                  ELSE Append(factoryCalls,
                              [provider |-> selectedProvider, ok |-> factoryOk,
                               number |-> llmCall.number])
           /\ cachedClient' =
                  IF ~reused /\ factoryOk THEN Some(selectedProvider) ELSE cachedClient
           /\ reused => factoryOk
           /\ ~ready => attemptOutcome # "success"
           /\ CASE attemptOutcome = "success" ->
                       /\ llmCall' = [llmCall EXCEPT
                              !.pc = IF llmCall.kind = "stream" THEN "streaming" ELSE "returned"]
                       /\ UNCHANGED llmNotifications
                [] attemptOutcome = "retryable" /\ llmCall.attempt < ClientMaxRetries ->
                       /\ llmCall' = [llmCall EXCEPT !.attempt = @ + 1]
                       /\ llmNotifications' = llmNotifications \o RetryNotifications(llmCall.kind)
                [] OTHER ->
                       /\ llmCall' = [llmCall EXCEPT !.pc = "failed"]
                       /\ llmNotifications' = Append(llmNotifications, "onError")
    /\ UNCHANGED selectedProvider
    /\ UNCHANGED nonClientVars

(* The consumer takes the next chunk of the stream. *)
ConsumerNext ==
    /\ llmCall.pc = "streaming"
    /\ llmCall.chunks < MaxStreamChunks
    /\ llmCall' = [llmCall EXCEPT !.chunks = @ + 1]
    /\ llmNotifications' = Append(llmNotifications, "onStreamChunk")
    /\ UNCHANGED <<selectedProvider, cachedClient, factoryCalls>>
    /\ UNCHANGED nonClientVars

(* The consumer exhausts the stream: the end notification fires. *)
ConsumerExhausts ==
    /\ llmCall.pc = "streaming"
    /\ llmCall' = [llmCall EXCEPT !.pc = "ended"]
    /\ llmNotifications' = Append(llmNotifications, "onStreamEnd")
    /\ UNCHANGED <<selectedProvider, cachedClient, factoryCalls>>
    /\ UNCHANGED nonClientVars

(* The stream fails while the consumer iterates: nothing is retried. *)
IterationFails ==
    /\ llmCall.pc = "streaming"
    /\ llmCall' = [llmCall EXCEPT !.pc = "iterationFailed"]
    /\ UNCHANGED <<selectedProvider, cachedClient, factoryCalls, llmNotifications>>
    /\ UNCHANGED nonClientVars

ClientNext ==
    \/ \E providerName \in ProviderNames : SelectProvider(providerName)
    \/ CallInvoke
    \/ CallStream
    \/ \E factoryOk \in BOOLEAN, attemptOutcome \in {"success", "retryable", "fatal"} :
           AttemptOnce(factoryOk, attemptOutcome)
    \/ ConsumerNext
    \/ ConsumerExhausts
    \/ IterationFails

ClientInitWith(providerNames) ==
    /\ selectedProvider \in providerNames
    /\ cachedClient = Undefined
    /\ factoryCalls = <<>>
    /\ llmCall = NoLLMCall
    /\ llmNotifications = <<>>

----------------------------------------------------------------------------
(* The tool registry (src/tools/tool.ts and src/tools/registry.ts are not  *)
(* among the sources; the registry is the one of the specification,        *)
(* sections 3 and 4.4).  A request for an initialized tool awaits the      *)
(* tool's init; requests may overlap, so a request can arrive while an     *)
(* init it would need is still running.                                    *)

MaxToolRequests == 4

RegisteredToolIds == {"bash", "task"}

NotInitialized == [state |-> "absent", run |-> 0]

(* A variant that memoizes the result only, once init has settled. *)
NeedsInitUntilSettled(memo) == memo.state # "settled"

(* Memoized by id: init runs for a tool id that has no entry yet, and the  *)
(* entry is made when the init starts.                                     *)
NeedsInit(memo) == memo.state = "absent"

(* The init run a request of tool id awaits, or whose result it receives. *)
RunAwaited(id) == IF NeedsInit(toolMemo[id]) THEN initRuns[id] + 1 ELSE toolMemo[id].run

(* A request for the initialized tool id. *)
RequestTool(id) ==
    /\ Len(toolRequests) < MaxToolRequests
    /\ LET starts == NeedsInit(toolMemo[id])
           initRun == RunAwaited(id)
       IN  /\ initRuns' = IF starts THEN [initRuns EXCEPT ![id] = @ + 1] ELSE initRuns
           /\ toolMemo' = IF starts THEN [toolMemo EXCEPT ![id] = [state |-> "pending", run |-> initRun]]
                          ELSE toolMemo
           /\ toolRequests' =
                  Append(toolRequests,
                         [id |-> id, found |-> toolMemo[id].state, run |-> initRun,
                          received |-> IF ~starts /\ toolMemo[id].state = "settled"
                                       THEN initRun ELSE 0])
    /\ UNCHANGED nonRegistryVars

(* The requests still awaiting run `initRun` of tool id's init. *)
Awaiting(id, initRun) ==
    {i \in 1 .. Len(toolRequests) :
        toolRequests[i].id = id /\ toolRequests[i].run = initRun /\ toolRequests[i].received = 0}

(* A run of tool id's init settles: every request awaiting it receives its *)
(* result.                                                                 *)
InitSettles(id, initRun) ==
    /\ Awaiting(id, initRun) # {}
    /\ toolRequests' = [i \in 1 .. Len(toolRequests) |->
                           IF i \in Awaiting(id, initRun)
                           THEN [toolRequests[i] EXCEPT !.received = initRun]
                           ELSE toolRequests[i]]
    /\ toolMemo' = [toolMemo EXCEPT ![id] = [state |-> "settled", run |-> initRun]]
    /\ UNCHANGED initRuns
    /\ UNCHANGED nonRegistryVars

RegistryNext ==
    \/ \E id \in RegisteredToolIds : RequestTool(id)
    \/ \E id \in RegisteredToolIds, initRun \in 1 .. MaxToolRequests : InitSettles(id, initRun)

RegistryInitWith(ids) ==
    /\ toolMemo = [id \in ids |-> NotInitialized]
    /\ initRuns = [id \in ids |-> 0]
    /\ toolRequests = <<>>

----------------------------------------------------------------------------
(* extractRetryAfter.  A JavaScript value is a record of its type and its  *)
(* number or string; an error object is given by the three places the      *)
(* function looks at.  Times are milliseconds within the first minute of   *)
(* 1970-01-01 UTC.                                                         *)

MaxDateSeconds == 3

JsUndefined == [type |-> "undefined", num |-> 0, str |-> <<>>]

JsNumber(n) == [type |-> "number", num |-> n, str |-> <<>>]

JsString(str) == [type |-> "string", num |-> 0, str |-> str]

(* a ?? b *)
Nullish(a, b) == IF a.type = "undefined" THEN b ELSE a

NaN == <<>>

IsDecimalDigit(ch) == \E d \in 1 .. 10 : DecimalDigits[d] = ch

DigitValue(ch) == CHOOSE d \in 0 .. 9 : DecimalDigits[d + 1] = ch

RECURSIVE DigitsPrefix(_)
DigitsPrefix(str) ==
    IF str # <<>> /\ IsDecimalDigit(Head(str))
    THEN <<Head(str)>> \o DigitsPrefix(Tail(str))
    ELSE <<>>

RECURSIVE DecimalValue(_)
DecimalValue(digits) ==
    IF digits = <<>> THEN 0
    ELSE 10 * DecimalValue(SubSeq(digits, 1, Len(digits) - 1))
             + DigitValue(digits[Len(digits)])

(* parseInt(str, 10): leading blanks, a sign, then the longest run of      *)
(* digits; NaN when there is no digit.                                     *)
parseInt(str) ==
    LET trimmed == trimStart(str)
        signed == trimmed # <<>> /\ Head(trimmed) \in {"-", "+"}
        digits == DigitsPrefix(IF signed THEN Tail(trimmed) ELSE trimmed)
    IN  IF digits = <<>> THEN NaN
        ELSE Some((IF signed /\ Head(trimmed) = "-" THEN -1 ELSE 1) * DecimalValue(digits))

Pad2(n) == <<DecimalDigits[((n \div 10) % 10) + 1], DecimalDigits[(n % 10) + 1]>>

Pad3(n) == <<DecimalDigits[((n \div 100) % 10) + 1]>> \o Pad2(n % 100)

UTCPrefix ==
    <<"T", "h", "u", ",", " ", "0", "1", " ", "J", "a", "n", " ", "1", "9", "7", "0", " ",
      "0", "0", ":", "0", "0", ":">>

UTCSuffix == <<" ", "G", "M", "T">>

ISOPrefix ==
    <<"1", "9", "7", "0", "-", "0", "1", "-", "0", "1", "T", "0", "0", ":", "0", "0", ":">>

(* Date.prototype.toUTCString: whole seconds. *)
toUTCString(t) == UTCPrefix \o Pad2((t \div 1000) % 60) \o UTCSuffix

(* Date.prototype.toISOString: milliseconds. *)
toISOString(t) == ISOPrefix \o Pad2((t \div 1000) % 60) \o <<".">> \o Pad3(t % 1000) \o <<"Z">>

AllDigits(str) == \A i \in DOMAIN str : IsDecimalDigit(str[i])

(* Date.parse on the two formats above; NaN for any other string. *)
DateParse(str) ==
    CASE /\ Len(str) = Len(UTCPrefix) + 2 + Len(UTCSuffix)
         /\ SubSeq(str, 1, Len(UTCPrefix)) = UTCPrefix
         /\ SubSeq(str, Len(UTCPrefix) + 3, Len(str)) = UTCSuffix
         /\ AllDigits(SubSeq(str, Len(UTCPrefix) + 1, Len(UTCPrefix) + 2)) ->
             Some(1000 * DecimalValue(SubSeq(str, Len(UTCPrefix) + 1, Len(UTCPrefix) + 2)))
      [] /\ Len(str) = Len(ISOPrefix) + 7
         /\ SubSeq(str, 1, Len(ISOPrefix)) = ISOPrefix
         /\ str[Len(ISOPrefix) + 3] = "."
         /\ str[Len(str)] = "Z"
         /\ AllDigits(SubSeq(str, Len(ISOPrefix) + 1, Len(ISOPrefix) + 2))
         /\ AllDigits(SubSeq(str, Len(ISOPrefix) + 4, Len(ISOPrefix) + 6)) ->
             Some(1000 * DecimalValue(SubSeq(str, Len(ISOPrefix) + 1, Len(ISOPrefix) + 2))
                  + DecimalValue(SubSeq(str, Len(ISOPrefix) + 4, Len(ISOPrefix) + 6)))
      [] OTHER -> NaN

(* The value the function reads from the error object. *)
RetryAfterOf(error) ==
    Nullish(error.retryAfter, Nullish(error.responseHeaders, error.headers))

extractRetryAfter(error) ==
    IF error.kind # "object" THEN Undefined
    ELSE LET retryAfter == RetryAfterOf(error)
         IN  CASE retryAfter.type = "number" ->
                      IF retryAfter.num > 0 THEN Some(retryAfter.num * 1000) ELSE Undefined
               [] retryAfter.type = "string" ->
                      LET seconds == parseInt(retryAfter.str)
                      IN  IF seconds # NaN /\ seconds[1] > 0
                          THEN Some(seconds[1] * 1000)
                          ELSE Undefined
               [] OTHER -> Undefined

(* The arguments of the calls. *)
DateStrings ==
    {toUTCString(1000 * sec) : sec \in 0 .. MaxDateSeconds}
        \cup {toISOString(1000 * sec + 250) : sec \in 0 .. MaxDateSeconds}

SecondsStrings == {<<"5">>, <<"6", "0">>, <<"0">>, <<"-", "1">>, <<" ", "7">>}

OtherStrings == {<<"i", "n", "v", "a", "l", "i", "d">>, <<>>}

RetryAfterValues ==
    {JsUndefined} \cup {JsNumber(n) : n \in {5, 0, -1}}
        \cup {JsString(str) : str \in DateStrings \cup SecondsStrings \cup OtherStrings}

HeaderValues == {JsUndefined, JsNumber(3), JsString(<<"1", "0">>)}

NoErrorObject(kind) ==
    [kind |-> kind, retryAfter |-> JsUndefined, responseHeaders |-> JsUndefined,
     headers |-> JsUndefined]

ErrorObjects ==
    [kind : {"object"}, retryAfter : RetryAfterValues, responseHeaders : HeaderValues,
     headers : HeaderValues]
        \cup {NoErrorObject("null"), NoErrorObject("string")}

NowValues == {0, 1500}

RetryAfterInputs ==
    [error : ErrorObjects, now : NowValues, pc : {"ready"}, returned : {Undefined}]

IdleRetryAfterInput ==
    [error |-> NoErrorObject("null"), now |-> 0, pc |-> "idle", returned |-> Undefined]

CallExtractRetryAfter ==
    /\ retryAfterCall.pc = "ready"
    /\ retryAfterCall' = [retryAfterCall EXCEPT
           !.pc = "done", !.returned = extractRetryAfter(retryAfterCall.error)]
    /\ UNCHANGED nonRetryAfterVars

RetryAfterNext == CallExtractRetryAfter

RetryAfterInitWith(inputs) == retryAfterCall \in inputs

----------------------------------------------------------------------------
(* Custom commands: executeCustomCommand substitutes the arguments into    *)
(* the command body, then replaces the file references and then the shell  *)
(* commands it finds in the text.                                          *)

MaxArgsLen == 4

(* The character U+0060, which a string of this language cannot hold. *)
Backtick == "U+0060"

str_ARGUMENTS ==
    <<"$", "A", "R", "G", "U", "M", "E", "N", "T", "S">>

str_repos_root ==
    <<"{", "{", "r", "e", "p", "o", "s", "_", "r", "o", "o", "t", "}", "}">>

str_FileNotFound ==
    <<"[", "F", "i", "l", "e", " ", "n", "o", "t", " ", "f", "o", "u", "n",
      "d", ":", " ">>

str_CommandFailed ==
    <<"[", "C", "o", "m", "m", "a", "n", "d", " ", "f", "a", "i", "l", "e",
      "d", ":", " ", "C", "o", "m", "m", "a", "n", "d", " ", "e", "x", "i",
      "t", "e", "d", " ", "w", "i", "t", "h", " ", "c", "o", "d", "e", " ",
      "1", "]">>

MatchesAt(str, i, pattern) ==
    i + Len(pattern) - 1 <= Len(str) /\ SubSeq(str, i, i + Len(pattern) - 1) = pattern

(* str.replace(new RegExp(pattern, 'g'), replacement) for a literal        *)
(* pattern, with the lookahead (?![0-9]) when noDigitAfter, and a          *)
(* replacement that holds no "$".                                          *)
RECURSIVE ReplaceAllFrom(_, _, _, _, _)
ReplaceAllFrom(str, i, pattern, noDigitAfter, replacement) ==
    IF i > Len(str) THEN <<>>
    ELSE IF /\ MatchesAt(str, i, pattern)
            /\ noDigitAfter =>
                   ~(i + Len(pattern) <= Len(str) /\ IsDecimalDigit(str[i + Len(pattern)]))
         THEN replacement \o ReplaceAllFrom(str, i + Len(pattern), pattern, noDigitAfter,
                                            replacement)
         ELSE <<str[i]>> \o ReplaceAllFrom(str, i + 1, pattern, noDigitAfter, replacement)

(* str.replace(search, replacement) for a string search: the first         *)
(* occurrence.                                                             *)
RECURSIVE ReplaceFirstFrom(_, _, _, _)
ReplaceFirstFrom(str, i, search, replacement) ==
    IF i > Len(str) THEN <<>>
    ELSE IF MatchesAt(str, i, search)
         THEN replacement \o SubSeq(str, i + Len(search), Len(str))
         ELSE <<str[i]>> \o ReplaceFirstFrom(str, i + 1, search, replacement)

RECURSIVE ParseArgumentsFrom(_, _, _, _)
ParseArgumentsFrom(args, i, current, inQuote) ==
    IF i > Len(args) THEN (IF current # <<>> THEN <<current>> ELSE <<>>)
    ELSE LET char == args[i]
         IN  IF inQuote # ""
             THEN IF char = inQuote
                  THEN ParseArgumentsFrom(args, i + 1, current, "")
                  ELSE ParseArgumentsFrom(args, i + 1, Append(current, char), inQuote)
             ELSE IF char \in {"\"", "'"}
                  THEN ParseArgumentsFrom(args, i + 1, current, char)
             ELSE IF char \in {" ", "\t"}
                  THEN (IF current # <<>> THEN <<current>> ELSE <<>>)
                           \o ParseArgumentsFrom(args, i + 1, <<>>, "")
             ELSE ParseArgumentsFrom(args, i + 1, Append(current, char), "")

parseArguments(args) == ParseArgumentsFrom(args, 1, <<>>, "")

(* positionalArgs[i] ?? '' for a 0-based i *)
ArgOrEmpty(positionalArgs, i) ==
    IF i + 1 <= Len(positionalArgs) THEN positionalArgs[i + 1] ELSE <<>>

(* The loop over $1 .. $9. *)
RECURSIVE SubstituteDollar(_, _, _)
SubstituteDollar(text, positionalArgs, i) ==
    IF i > 9 THEN text
    ELSE SubstituteDollar(
             ReplaceAllFrom(text, 1, <<"$", DecimalDigits[i + 1]>>, TRUE,
                            ArgOrEmpty(positionalArgs, i - 1)),
             positionalArgs, i + 1)

(* The loop over {{arg0}} .. {{arg9}}. *)
RECURSIVE SubstituteBraces(_, _, _)
SubstituteBraces(text, positionalArgs, i) ==
    IF i > 9 THEN text
    ELSE SubstituteBraces(
             ReplaceAllFrom(text, 1,
                            <<"{", "{", "a", "r", "g", DecimalDigits[i + 1], "}", "}">>, FALSE,
                            ArgOrEmpty(positionalArgs, i)),
             positionalArgs, i + 1)

substituteArguments(body, args) ==
    LET positionalArgs == parseArguments(args)
        all == ReplaceAllFrom(body, 1, str_ARGUMENTS, FALSE, args)
        dollar == SubstituteDollar(all, positionalArgs, 1)
        braces == SubstituteBraces(dollar, positionalArgs, 0)
    IN  ReplaceAllFrom(braces, 1, str_repos_root, FALSE, WorkspaceRoot)

(* [^\s`@*?"<>|] *)
IsPathChar(char) == char \notin {" ", "\t", "\n", Backtick, "@", "*", "?", "\"", "<", ">", "|"}

RECURSIVE PathRunEnd(_, _)
PathRunEnd(str, i) ==
    IF i <= Len(str) /\ IsPathChar(str[i]) THEN PathRunEnd(str, i + 1) ELSE i - 1

(* body.matchAll(fileRefPattern): the captured paths, left to right; the   *)
(* optional drive and ./ prefixes consist of characters of the class.      *)
RECURSIVE FileRefMatchesFrom(_, _)
FileRefMatchesFrom(str, i) ==
    IF i > Len(str) THEN <<>>
    ELSE IF str[i] = "@" /\ PathRunEnd(str, i + 1) > i
         THEN <<SubSeq(str, i + 1, PathRunEnd(str, i + 1))>>
                  \o FileRefMatchesFrom(str, PathRunEnd(str, i + 1) + 1)
         ELSE FileRefMatchesFrom(str, i + 1)

TRAILING_PUNCTUATION == {".", ",", ";", ":", "!", "?", ")"}

RECURSIVE StripTrailingPunctuation(_)
StripTrailingPunctuation(filePath) ==
    IF filePath # <<>> /\ filePath[Len(filePath)] \in TRAILING_PUNCTUATION
    THEN StripTrailingPunctuation(SubSeq(filePath, 1, Len(filePath) - 1))
    ELSE filePath

(* The files of the workspace, by their path relative to it. *)
WorkspaceFileNames == {<<"a">>}

FileContent == <<"t", "e", "x", "t">>

(* What a reference is replaced with: the content, or the note. *)
FileReferenceText(filePath) ==
    IF filePath \in WorkspaceFileNames THEN FileContent
    ELSE str_FileNotFound \o filePath \o <<"]">>

(* The loop over the matches: the prompt so far and the paths read. *)
RECURSIVE ProcessFileMatches(_, _, _)
ProcessFileMatches(matches, text, reads) ==
    IF matches = <<>> THEN [text |-> text, reads |-> reads]
    ELSE LET filePath == StripTrailingPunctuation(Head(matches))
         IN  IF filePath = <<>> THEN ProcessFileMatches(Tail(matches), text, reads)
             ELSE ProcessFileMatches(
                      Tail(matches),
                      ReplaceFirstFrom(text, 1, <<"@">> \o filePath,
                                       FileReferenceText(filePath)),
                      Append(reads, filePath))

processFileReferences(body) ==
    ProcessFileMatches(FileRefMatchesFrom(body, 1), body, <<>>)

RECURSIVE NextBacktick(_, _)
NextBacktick(str, i) ==
    IF i > Len(str) THEN 0 ELSE IF str[i] = Backtick THEN i ELSE NextBacktick(str, i + 1)

(* body.matchAll(bashPattern): the captured commands, left to right. *)
RECURSIVE BashMatchesFrom(_, _)
BashMatchesFrom(str, i) ==
    IF i + 1 > Len(str) THEN <<>>
    ELSE IF str[i] = "!" /\ str[i + 1] = Backtick /\ NextBacktick(str, i + 2) > i + 2
         THEN <<SubSeq(str, i + 2, NextBacktick(str, i + 2) - 1)>>
                  \o BashMatchesFrom(str, NextBacktick(str, i + 2) + 1)
         ELSE BashMatchesFrom(str, i + 1)

CommandOutput == <<"o", "u", "t">>

(* The loop over the matches: the prompt so far and the commands run. *)
RECURSIVE RunBashMatches(_, _, _, _)
RunBashMatches(matches, text, ran, succeed) ==
    IF matches = <<>> THEN [text |-> text, ran |-> ran]
    ELSE RunBashMatches(
             Tail(matches),
             ReplaceFirstFrom(text, 1, <<"!", Backtick>> \o Head(matches) \o <<Backtick>>,
                              IF succeed THEN CommandOutput ELSE str_CommandFailed),
             Append(ran, Head(matches)),
             succeed)

executeBashContext(body, succeed) ==
    RunBashMatches(BashMatchesFrom(body, 1), body, <<>>, succeed)

(* executeCustomCommand, step 1. *)
CommandSubstitutes ==
    /\ commandCall.pc = "ready"
    /\ commandCall' = [commandCall EXCEPT
           !.pc = "files",
           !.prompt = substituteArguments(commandCall.body, commandCall.args)]
    /\ UNCHANGED <<fileReads, commandsRun>>
    /\ UNCHANGED nonCommandVars

(* executeCustomCommand, step 2. *)
CommandReadsFiles ==
    /\ commandCall.pc = "files"
    /\ LET processed == processFileReferences(commandCall.prompt)
       IN  /\ commandCall' = [commandCall EXCEPT !.pc = "bash", !.prompt = processed.text]
           /\ fileReads' = processed.reads
    /\ UNCHANGED commandsRun
    /\ UNCHANGED nonCommandVars

(* executeCustomCommand, step 3, and the result. *)
CommandRunsBash ==
    /\ commandCall.pc = "bash"
    /\ \E succeed \in BOOLEAN :
           LET executed == executeBashContext(commandCall.prompt, succeed)
           IN  /\ commandCall' = [commandCall EXCEPT !.pc = "done", !.prompt = executed.text]
               /\ commandsRun' = executed.ran
    /\ UNCHANGED fileReads
    /\ UNCHANGED nonCommandVars

CommandNext ==
    \/ CommandSubstitutes
    \/ CommandReadsFiles
    \/ CommandRunsBash

(* The command bodies: all arguments, a positional argument, and a body    *)
(* with a file reference and a shell command of its own.                   *)
body_all ==
    <<"D", "o", " ", "$", "A", "R", "G", "U", "M", "E", "N", "T", "S">>

body_first ==
    <<"F", "i", "x", " ", "$", "1", ".">>

body_own ==
    <<"@", "a", " ", "!", Backtick, "b", Backtick, " ", "{", "{", "a", "r", "g", "0",
      "}", "}">>

CommandBodies == {body_all, body_first, body_own}

(* What the user may type after the command name. *)
ArgChars == {"@", "!", Backtick, "a", " "}

RECURSIVE ArgStrings(_)
ArgStrings(n) ==
    IF n = 0 THEN {<<>>}
    ELSE LET shorter == ArgStrings(n - 1)
         IN  shorter \cup {Append(str, char) : str \in shorter, char \in ArgChars}

CommandInputs ==
    [body : CommandBodies, args : ArgStrings(MaxArgsLen), pc : {"ready"}, prompt : {<<>>}]

IdleCommandInput == [body |-> <<>>, args |-> <<>>, pc |-> "idle", prompt |-> <<>>]

CommandInitWith(inputs) ==
    /\ commandCall \in inputs
    /\ fileReads = <<>>
    /\ commandsRun = <<>>

----------------------------------------------------------------------------
(* The write tool: stat, mkdir, writeFile to a temporary file, rename.     *)
(* Independent tool calls of one turn may run concurrently, so two         *)
(* executions on the same path interleave at every await.                  *)

MaxWriteTicks == 1

Writers == {1, 2}

OldContent == <<"o", "l", "d">>

(* The contents the executions are asked to write. *)
WriteContents == {<<"n", "e", "w">>, <<"x">>}

NoInode == 0

IdleExecution ==
    [pc |-> "idle", content |-> <<>>, existedBefore |-> FALSE, tempPath |-> 0, fd |-> NoInode]

NewExecution(content) == [IdleExecution EXCEPT !.pc = "stat", !.content = content]

FinishedPcs == {"returned", "Error writing", "Failed to write file"}

(* What a read of the target would return. *)
TargetState ==
    IF dirEntries.target = NoInode THEN Undefined ELSE Some(inodes[dirEntries.target])

(* A write of data at offset 0 of a file that holds current. *)
WriteAtStart(current, data) ==
    data \o SubSeq(current, Len(data) + 1, Len(current))

(* fs.stat(resolved) *)
WriteStat(w) ==
    /\ writers[w].pc = "stat"
    /\ writers' = [writers EXCEPT ![w].pc = "mkdir",
                                  ![w].existedBefore = (dirEntries.target # NoInode)]
    /\ UNCHANGED <<inodes, dirEntries, previousTarget, writeNow>>
    /\ UNCHANGED nonWriteVars

(* fs.mkdir(parentDir), and on success the temporary path from Date.now() *)
WriteMkdir(w) ==
    /\ writers[w].pc = "mkdir"
    /\ \E mkdirOk \in BOOLEAN, tick \in {0, 1} :
           IF mkdirOk
           THEN /\ writeNow' = Min(writeNow + tick, MaxWriteTicks)
                /\ writers' = [writers EXCEPT ![w].pc = "open", ![w].tempPath = writeNow']
           ELSE /\ writers' = [writers EXCEPT ![w].pc = "Error writing"]
                /\ UNCHANGED writeNow
    /\ UNCHANGED <<inodes, dirEntries, previousTarget>>
    /\ UNCHANGED nonWriteVars

(* fs.writeFile(tempPath, content): the file is opened for writing,        *)
(* created when absent and truncated when present.                         *)
WriteFileOpen(w) ==
    /\ writers[w].pc = "open"
    /\ \E openOk \in BOOLEAN :
           LET tempPath == writers[w].tempPath
               existing == dirEntries.temp[tempPath]
           IN  IF ~openOk
               THEN /\ writers' = [writers EXCEPT ![w].pc = "Error writing"]
                    /\ UNCHANGED <<inodes, dirEntries>>
               ELSE IF existing = NoInode
               THEN /\ inodes' = Append(inodes, <<>>)
                    /\ dirEntries' = [dirEntries EXCEPT !.temp[tempPath] = Len(inodes) + 1]
                    /\ writers' = [writers EXCEPT ![w].pc = "write",
                                                  ![w].fd = Len(inodes) + 1]
               ELSE /\ inodes' = [inodes EXCEPT ![existing] = <<>>]
                    /\ UNCHANGED dirEntries
                    /\ writers' = [writers EXCEPT ![w].pc = "write", ![w].fd = existing]
    /\ UNCHANGED <<previousTarget, writeNow>>
    /\ UNCHANGED nonWriteVars

(* fs.writeFile(tempPath, content): the content is written to the open     *)
(* file; a failing write (disk full) leaves a part of it.                  *)
WriteFileWrite(w) ==
    /\ writers[w].pc = "write"
    /\ LET fd == writers[w].fd
           content == writers[w].content
       IN  \/ /\ inodes' = [inodes EXCEPT ![fd] = WriteAtStart(inodes[fd], content)]
              /\ writers' = [writers EXCEPT ![w].pc = "rename", ![w].fd = NoInode]
           \/ \E written \in 0 .. Len(content) - 1 :
                  /\ inodes' = [inodes EXCEPT
                         ![fd] = WriteAtStart(inodes[fd], SubSeq(content, 1, written))]
                  /\ writers' = [writers EXCEPT ![w].pc = "Error writing", ![w].fd = NoInode]
    /\ UNCHANGED <<dirEntries, previousTarget, writeNow>>
    /\ UNCHANGED nonWriteVars

(* fs.rename(tempPath, resolved), and the result on success *)
WriteRename(w) ==
    /\ writers[w].pc = "rename"
    /\ LET tempPath == writers[w].tempPath
       IN  \E renameOk \in BOOLEAN :
               IF renameOk /\ dirEntries.temp[tempPath] # NoInode
               THEN /\ dirEntries' = [dirEntries EXCEPT
                           !.target = dirEntries.temp[tempPath],
                           !.temp[tempPath] = NoInode]
                    /\ writers' = [writers EXCEPT ![w].pc = "returned"]
               ELSE /\ writers' = [writers EXCEPT ![w].pc = "unlink"]
                    /\ UNCHANGED dirEntries
    /\ UNCHANGED <<inodes, previousTarget, writeNow>>
    /\ UNCHANGED nonWriteVars

(* fs.unlink(tempPath) after a failed rename, its errors ignored, and the  *)
(* error thrown.                                                           *)
WriteUnlink(w) ==
    /\ writers[w].pc = "unlink"
    /\ LET tempPath == writers[w].tempPath
       IN  \E unlinkOk \in BOOLEAN :
               IF unlinkOk /\ dirEntries.temp[tempPath] # NoInode
               THEN dirEntries' = [dirEntries EXCEPT !.temp[tempPath] = NoInode]
               ELSE UNCHANGED dirEntries
    /\ writers' = [writers EXCEPT ![w].pc = "Failed to write file"]
    /\ UNCHANGED <<inodes, previousTarget, writeNow>>
    /\ UNCHANGED nonWriteVars

WriteNext ==
    \E w \in Writers :
        \/ WriteStat(w)
        \/ WriteMkdir(w)
        \/ WriteFileOpen(w)
        \/ WriteFileWrite(w)
        \/ WriteRename(w)
        \/ WriteUnlink(w)

WriteInitWith(contents) ==
    /\ writers \in [Writers -> IF contents = {} THEN {IdleExecution}
                               ELSE {NewExecution(content) : content \in contents}]
    /\ previousTarget \in (IF contents = {} THEN {Undefined}
                           ELSE {Undefined, Some(OldContent)})
    /\ inodes = (IF previousTarget = Undefined THEN <<>> ELSE <<OldContent>>)
    /\ dirEntries = [target |-> IF previousTarget = Undefined THEN NoInode ELSE 1,
                     temp |-> [t \in 0 .. MaxWriteTicks |-> NoInode]]
    /\ writeNow = 0

----------------------------------------------------------------------------
(* Initial states.                                                         *)
MaxRetriesValues == 0 .. MaxRetriesBound

RetryOptions ==
    [maxRetries : MaxRetriesValues, baseDelayMs : {TestBaseDelayMs},
     maxDelayMs : {TestBaseDelayMs + TestBaseDelayMs \div 2},
     enableJitter : BOOLEAN, onRetry : BOOLEAN]

AnyOperation == [responses |-> Responses, mayReject |-> TRUE]

(* The operations of the concurrency test: few outcomes each. *)
SmallOperations ==
    {[responses |-> {successResponse, errorResponse(code, Undefined),
                     errorResponse("AUTHENTICATION_ERROR", Undefined)},
      mayReject |-> TRUE] : code \in {"RATE_LIMITED", "NETWORK_ERROR"}}

IdleOptions ==
    [maxRetries |-> 0, baseDelayMs |-> TestBaseDelayMs, maxDelayMs |-> TestBaseDelayMs,
     enableJitter |-> FALSE, onRetry |-> FALSE]

RetryInitWith(active, optionSet, operationSet) ==
    /\ pc = [c \in CallIds |-> IF c \in active THEN "ready" ELSE "unused"]
    /\ opts \in [CallIds -> optionSet \cup {IdleOptions}]
    /\ \A c \in CallIds : IF c \in active THEN opts[c] \in optionSet ELSE opts[c] = IdleOptions
    /\ operation \in [CallIds -> operationSet]
    /\ \A c \in CallIds : c \notin active => operation[c] = CHOOSE o \in operationSet : TRUE
    /\ attempt = [c \in CallIds |-> 0]
    /\ opLog = [c \in CallIds |-> <<>>]
    /\ onRetryLog = [c \in CallIds |-> <<>>]
    /\ sleepLog = [c \in CallIds |-> <<>>]
    /\ events = [c \in CallIds |-> <<>>]
    /\ result = [c \in CallIds |-> NoResponse]

RetryInit ==
    /\ RetryInitWith({"A"}, RetryOptions, {AnyOperation})
    /\ PathInitWith("idle", {FsNoWorkspace}, {IdleRequest})
    /\ ContextInitWith({FALSE})
    /\ SelectInitWith({IdleSelectInput})
    /\ OrchInitWith({"Idle"})
    /\ ShellInitWith({TRUE})
    /\ ClientInitWith({"openai"})
    /\ RegistryInitWith({})
    /\ RetryAfterInitWith({IdleRetryAfterInput})
    /\ CommandInitWith({IdleCommandInput})
    /\ WriteInitWith({})

(* Options as any caller of the exported withRetry may pass them: the      *)
(* retry count is not validated.                                           *)
AnyRetryOptions ==
    [maxRetries : -1 .. MaxRetriesBound, baseDelayMs : {TestBaseDelayMs},
     maxDelayMs : {TestBaseDelayMs + TestBaseDelayMs \div 2},
     enableJitter : BOOLEAN, onRetry : BOOLEAN]

RetryAnyOptionsInit ==
    /\ RetryInitWith({"A"}, AnyRetryOptions, {AnyOperation})
    /\ PathInitWith("idle", {FsNoWorkspace}, {IdleRequest})
    /\ ContextInitWith({FALSE})
    /\ SelectInitWith({IdleSelectInput})
    /\ OrchInitWith({"Idle"})
    /\ ShellInitWith({TRUE})
    /\ ClientInitWith({"openai"})
    /\ RegistryInitWith({})
    /\ RetryAfterInitWith({IdleRetryAfterInput})
    /\ CommandInitWith({IdleCommandInput})
    /\ WriteInitWith({})

ConcurrentOptions == {o \in RetryOptions : ~o.enableJitter /\ o.onRetry}

RetryConcurrentInit ==
    /\ RetryInitWith(CallIds, ConcurrentOptions, SmallOperations)
    /\ PathInitWith("idle", {FsNoWorkspace}, {IdleRequest})
    /\ ContextInitWith({FALSE})
    /\ SelectInitWith({IdleSelectInput})
    /\ OrchInitWith({"Idle"})
    /\ ShellInitWith({TRUE})
    /\ ClientInitWith({"openai"})
    /\ RegistryInitWith({})
    /\ RetryAfterInitWith({IdleRetryAfterInput})
    /\ CommandInitWith({IdleCommandInput})
    /\ WriteInitWith({})

PathInit ==
    /\ PathInitWith("start", FileSystems, Requests)
    /\ RetryInitWith({}, {IdleOptions}, {AnyOperation})
    /\ ContextInitWith({FALSE})
    /\ SelectInitWith({IdleSelectInput})
    /\ OrchInitWith({"Idle"})
    /\ ShellInitWith({TRUE})
    /\ ClientInitWith({"openai"})
    /\ RegistryInitWith({})
    /\ RetryAfterInitWith({IdleRetryAfterInput})
    /\ CommandInitWith({IdleCommandInput})
    /\ WriteInitWith({})

SelectInit ==
    /\ SelectInitWith(SelectInputs)
    /\ RetryInitWith({}, {IdleOptions}, {AnyOperation})
    /\ PathInitWith("idle", {FsNoWorkspace}, {IdleRequest})
    /\ ContextInitWith({FALSE})
    /\ OrchInitWith({"Idle"})
    /\ ShellInitWith({TRUE})
    /\ ClientInitWith({"openai"})
    /\ RegistryInitWith({})
    /\ RetryAfterInitWith({IdleRetryAfterInput})
    /\ CommandInitWith({IdleCommandInput})
    /\ WriteInitWith({})

ContextInit ==
    /\ ContextInitWith(BOOLEAN)
    /\ RetryInitWith({}, {IdleOptions}, {AnyOperation})
    /\ PathInitWith("idle", {FsNoWorkspace}, {IdleRequest})
    /\ SelectInitWith({IdleSelectInput})
    /\ OrchInitWith({"Idle"})
    /\ ShellInitWith({TRUE})
    /\ ClientInitWith({"openai"})
    /\ RegistryInitWith({})
    /\ RetryAfterInitWith({IdleRetryAfterInput})
    /\ CommandInitWith({IdleCommandInput})
    /\ WriteInitWith({})

OrchestratorInit ==
    /\ OrchInitWith({"Idle"})
    /\ ShellInitWith({TRUE})
    /\ ClientInitWith({"openai"})
    /\ RegistryInitWith({})
    /\ RetryAfterInitWith({IdleRetryAfterInput})
    /\ CommandInitWith({IdleCommandInput})
    /\ WriteInitWith({})
    /\ RetryInitWith({}, {IdleOptions}, {AnyOperation})
    /\ PathInitWith("idle", {FsNoWorkspace}, {IdleRequest})
    /\ ContextInitWith({FALSE})
    /\ SelectInitWith({IdleSelectInput})

ShellInit ==
    /\ ShellInitWith({FALSE})
    /\ RetryInitWith({}, {IdleOptions}, {AnyOperation})
    /\ PathInitWith("idle", {FsNoWorkspace}, {IdleRequest})
    /\ ContextInitWith({FALSE})
    /\ SelectInitWith({IdleSelectInput})
    /\ OrchInitWith({"Idle"})
    /\ ClientInitWith({"openai"})
    /\ RegistryInitWith({})
    /\ RetryAfterInitWith({IdleRetryAfterInput})
    /\ CommandInitWith({IdleCommandInput})
    /\ WriteInitWith({})

ClientInit ==
    /\ ClientInitWith(ProviderNames)
    /\ RegistryInitWith({})
    /\ RetryAfterInitWith({IdleRetryAfterInput})
    /\ CommandInitWith({IdleCommandInput})
    /\ WriteInitWith({})
    /\ RetryInitWith({}, {IdleOptions}, {AnyOperation})
    /\ PathInitWith("idle", {FsNoWorkspace}, {IdleRequest})
    /\ ContextInitWith({FALSE})
    /\ SelectInitWith({IdleSelectInput})
    /\ OrchInitWith({"Idle"})
    /\ ShellInitWith({TRUE})

RegistryInit ==
    /\ RegistryInitWith(RegisteredToolIds)
    /\ RetryAfterInitWith({IdleRetryAfterInput})
    /\ CommandInitWith({IdleCommandInput})
    /\ WriteInitWith({})
    /\ RetryInitWith({}, {IdleOptions}, {AnyOperation})
    /\ PathInitWith("idle", {FsNoWorkspace}, {IdleRequest})
    /\ ContextInitWith({FALSE})
    /\ SelectInitWith({IdleSelectInput})
    /\ OrchInitWith({"Idle"})
    /\ ShellInitWith({TRUE})
    /\ ClientInitWith({"openai"})

RetryAfterInit ==
    /\ RetryAfterInitWith(RetryAfterInputs)
    /\ CommandInitWith({IdleCommandInput})
    /\ WriteInitWith({})
    /\ RetryInitWith({}, {IdleOptions}, {AnyOperation})
    /\ PathInitWith("idle", {FsNoWorkspace}, {IdleRequest})
    /\ ContextInitWith({FALSE})
    /\ SelectInitWith({IdleSelectInput})
    /\ OrchInitWith({"Idle"})
    /\ ShellInitWith({TRUE})
    /\ ClientInitWith({"openai"})
    /\ RegistryInitWith({})

CommandInit ==
    /\ CommandInitWith(CommandInputs)
    /\ WriteInitWith({})
    /\ RetryInitWith({}, {IdleOptions}, {AnyOperation})
    /\ PathInitWith("idle", {FsNoWorkspace}, {IdleRequest})
    /\ ContextInitWith({FALSE})
    /\ SelectInitWith({IdleSelectInput})
    /\ OrchInitWith({"Idle"})
    /\ ShellInitWith({TRUE})
    /\ ClientInitWith({"openai"})
    /\ RegistryInitWith({})
    /\ RetryAfterInitWith({IdleRetryAfterInput})

WriteInit ==
    /\ WriteInitWith(WriteContents)
    /\ RetryInitWith({}, {IdleOptions}, {AnyOperation})
    /\ PathInitWith("idle", {FsNoWorkspace}, {IdleRequest})
    /\ ContextInitWith({FALSE})
    /\ SelectInitWith({IdleSelectInput})
    /\ OrchInitWith({"Idle"})
    /\ ShellInitWith({TRUE})
    /\ ClientInitWith({"openai"})
    /\ RegistryInitWith({})
    /\ RetryAfterInitWith({IdleRetryAfterInput})
    /\ CommandInitWith({IdleCommandInput})

SpecRetry == RetryInit /\ [][RetryNext]_vars

SpecWrite == WriteInit /\ [][WriteNext]_vars

SpecCommand == CommandInit /\ [][CommandNext]_vars

SpecRetryAfter == RetryAfterInit /\ [][RetryAfterNext]_vars

SpecRetryAnyOptions == RetryAnyOptionsInit /\ [][RetryNext]_vars

SpecRetryConcurrent == RetryConcurrentInit /\ [][RetryNext]_vars

SpecPath == PathInit /\ [][PathNext]_vars

SpecContext == ContextInit /\ [][ContextNext]_vars

SpecSelect == SelectInit /\ [][SelectNext]_vars

SpecOrchestrator == OrchestratorInit /\ [][OrchestratorNext]_vars

SpecShell == ShellInit /\ [][ShellNext]_vars

SpecClient == ClientInit /\ [][ClientNext]_vars

SpecRegistry == RegistryInit /\ [][RegistryNext]_vars

----------------------------------------------------------------------------
(* Properties of withRetry.                                                *)

IsRetryableFailure(r) == ~r.success /\ r.error \in {"RATE_LIMITED", "NETWORK_ERROR", "TIMEOUT"}

AllRetryableFailures(log) == \A i \in DOMAIN log : IsRetryableFailure(log[i])

Last(log) == log[Len(log)]

\* C1: when the failed attempt's response carries retryAfterMs and a retry
\* follows, the delay reported to the observer and slept is that provider
\* value, not the computed backoff.
C1_ProviderDelayOverridesBackoff ==
    \A c \in CallIds : \A i \in DOMAIN sleepLog[c] :
        opLog[c][i].retryAfterMs # Undefined =>
            /\ sleepLog[c][i] = opLog[c][i].retryAfterMs[1]
            /\ opts[c].onRetry => onRetryLog[c][i].delayMs = opLog[c][i].retryAfterMs[1]

\* C2: an operation that fails with a retryable code on every attempt is
\* invoked exactly maxRetries+1 times, and the call then returns the last
\* failure: it never returns earlier and never invokes once more.
C2_AlwaysFailingInvokedMaxRetriesPlusOne ==
    \A c \in CallIds :
        (pc[c] # "unused" /\ AllRetryableFailures(opLog[c])) =>
            /\ Len(opLog[c]) <= opts[c].maxRetries + 1
            /\ pc[c] = "done" =>
                 /\ Len(opLog[c]) = opts[c].maxRetries + 1
                 /\ result[c] = Last(opLog[c])
            /\ Len(opLog[c]) = opts[c].maxRetries + 1 => pc[c] = "done"

C2_Witness ==
    /\ pc["A"] = "done"
    /\ opts["A"].maxRetries = MaxRetriesBound
    /\ Len(opLog["A"]) = MaxRetriesBound + 1
    /\ AllRetryableFailures(opLog["A"])
    /\ result["A"] = Last(opLog["A"])

\* C3: retryable failures on attempts 1..n-1 and a success on attempt n
\* (n <= maxRetries+1): the call does not give up before attempt n, invokes
\* nothing after it, and returns that success.
C3_SuccessOnNthAttemptInvokedNTimes ==
    \A c \in CallIds :
        /\ (pc[c] # "unused" /\ AllRetryableFailures(opLog[c])
              /\ Len(opLog[c]) <= opts[c].maxRetries) => pc[c] # "done"
        /\ \A n \in DOMAIN opLog[c] :
              (opLog[c][n].success /\ AllRetryableFailures(SubSeq(opLog[c], 1, n - 1))) =>
                  /\ n <= opts[c].maxRetries + 1
                  /\ Len(opLog[c]) = n
                  /\ pc[c] = "done"
                  /\ result[c] = opLog[c][n]

C3_Witness ==
    /\ pc["A"] = "done"
    /\ Len(opLog["A"]) = MaxRetriesBound + 1
    /\ AllRetryableFailures(SubSeq(opLog["A"], 1, MaxRetriesBound))
    /\ Last(opLog["A"]).success
    /\ result["A"] = successResponse

\* C4: a failure with a code outside {RATE_LIMITED, NETWORK_ERROR, TIMEOUT}
\* is returned at once: nothing is invoked, reported or slept after it, so
\* such a failure on the first attempt means one invocation, no observer
\* call and no sleep.
C4_NonRetryableReturnsImmediately ==
    \A c \in CallIds : \A i \in DOMAIN opLog[c] :
        (~opLog[c][i].success
           /\ opLog[c][i].error \notin {"RATE_LIMITED", "NETWORK_ERROR", "TIMEOUT"}) =>
            /\ Len(opLog[c]) = i
            /\ pc[c] = "done"
            /\ result[c] = opLog[c][i]
            /\ Len(sleepLog[c]) = i - 1
            /\ Len(onRetryLog[c]) <= i - 1
            /\ Len(SelectSeq(events[c], LAMBDA e : e = "invoke")) = i

C4_Witness ==
    /\ pc["A"] = "done"
    /\ opLog["A"] = <<errorResponse("AUTHENTICATION_ERROR", Undefined)>>
    /\ result["A"] = errorResponse("AUTHENTICATION_ERROR", Undefined)
    /\ onRetryLog["A"] = <<>>
    /\ sleepLog["A"] = <<>>
    /\ opts["A"].maxRetries = MaxRetriesBound
    /\ opts["A"].onRetry

(* What a call running alone shows, from its own options and outcomes.     *)
ExpectedDelays(o, n) == [i \in 1 .. n |-> Min(o.baseDelayMs * Pow2(i - 1), o.maxDelayMs)]

ExpectedContexts(o, log, n) ==
    [i \in 1 .. n |->
        [attempt |-> i, maxRetries |-> o.maxRetries,
         delayMs |-> Min(o.baseDelayMs * Pow2(i - 1), o.maxDelayMs),
         error |-> log[i].error, message |-> log[i].message]]

IsFinal(o, log) ==
    /\ log # <<>>
    /\ \/ ~IsRetryableFailure(Last(log))
       \/ Len(log) = o.maxRetries + 1

Retries(c) == IF pc[c] \in {"done", "ready"} THEN Max(0, Len(opLog[c]) - 1) ELSE Len(opLog[c])

\* C5: with two calls in flight, each call's invocation count, delays,
\* observer reports and result are those of a call running alone on its own
\* operation's outcomes and options.
C5_ConcurrentCallsIndependent ==
    \A c \in CallIds :
        /\ Len(opLog[c]) <= opts[c].maxRetries + 1
        /\ AllRetryableFailures(SubSeq(opLog[c], 1, Len(opLog[c]) - 1))
        /\ pc[c] = "done" <=> IsFinal(opts[c], opLog[c])
        /\ pc[c] = "done" => result[c] = Last(opLog[c])
        /\ pc[c] = "sleeping" => attempt[c] = Len(opLog[c]) - 1
        /\ pc[c] = "awaitOp" => attempt[c] = Len(opLog[c])
        /\ sleepLog[c] = ExpectedDelays(opts[c], Retries(c))
        /\ onRetryLog[c] = ExpectedContexts(opts[c], opLog[c], Retries(c))

C5_Witness ==
    /\ pc["A"] = "done"
    /\ Len(opLog["A"]) = 2
    /\ result["A"].success
    /\ pc["B"] = "sleeping"
    /\ Len(opLog["B"]) = 2
    /\ opts["A"].maxRetries # opts["B"].maxRetries

\* C6: for each retry the observer is called after the failed attempt and
\* before the sleep starts, with attempt = the 1-based number of the retry,
\* maxRetries, delayMs = the delay then slept, and the error and message of
\* the attempt that just failed.
C6_ObserverBeforeSleepWithContext ==
    \A c \in CallIds : opts[c].onRetry =>
        /\ Len(onRetryLog[c]) = Len(sleepLog[c])
        /\ \A i \in DOMAIN onRetryLog[c] :
              onRetryLog[c][i] =
                  [attempt |-> i, maxRetries |-> opts[c].maxRetries,
                   delayMs |-> sleepLog[c][i],
                   error |-> opLog[c][i].error, message |-> opLog[c][i].message]
        /\ \A j \in DOMAIN events[c] :
              /\ events[c][j] = "sleep" =>
                    j > 2 /\ events[c][j - 1] = "onRetry" /\ events[c][j - 2] = "invoke"
              /\ events[c][j] = "onRetry" =>
                    j < Len(events[c]) /\ events[c][j + 1] = "sleep"

C6_Witness ==
    /\ opts["A"].onRetry
    /\ Len(onRetryLog["A"]) = 2
    /\ pc["A"] = "sleeping"
    /\ opLog["A"][1].error # opLog["A"][2].error
    /\ onRetryLog["A"][2].attempt = 2
    /\ onRetryLog["A"][2].delayMs = sleepLog["A"][2]

\* C7: withRetry never lets a failure out as a thrown exception: whatever
\* the wrapped operation does, the call ends by returning a ModelResponse.
C7_NeverThrows ==
    \A c \in CallIds : pc[c] # "thrown"

----------------------------------------------------------------------------
(* Properties of workspace path validation, stated on path segments.       *)

(* p holds a segment "..", delimited by "/" or "\" or the string's ends. *)
HasDotDotSegment(p) ==
    \E i \in 1 .. Len(p) - 1 :
        /\ p[i] = "." /\ p[i + 1] = "."
        /\ i = 1 \/ p[i - 1] \in {"/", "\\"}
        /\ i + 1 = Len(p) \/ p[i + 2] \in {"/", "\\"}

IsSegmentPrefix(a, b) == Len(a) <= Len(b) /\ SubSeq(b, 1, Len(a)) = a

RootSegments == <<n_a>>

(* The segments of the location the request names, syntactically. *)
TargetSegments ==
    IF isAbsolute(request.relativePath)
    THEN Segments(request.relativePath)
    ELSE Segments(WorkspaceRoot \o sep \o request.relativePath)

Real(segs) == RealSegments(fsys, <<>>, segs, SymlinkFuel)

RootExists == Real(RootSegments).ok

RealRootSegments == IF RootExists THEN Real(RootSegments).segs ELSE RootSegments

SyntacticallyInside ==
    /\ ~HasDotDotSegment(request.relativePath)
    /\ IsSegmentPrefix(RootSegments, TargetSegments)

(* The nearest proper ancestor of the target that the filesystem resolves. *)
NearestExistingAncestor ==
    LET t == TargetSegments
        k == CHOOSE k \in 0 .. Len(t) - 1 :
                /\ Real(SubSeq(t, 1, k)).ok
                /\ \A j \in k + 1 .. Len(t) - 1 : ~Real(SubSeq(t, 1, j)).ok
    IN  SubSeq(t, 1, k)

\* C8: a path with a ".." segment is rejected with PERMISSION_DENIED by
\* resolveWorkspacePath and resolveWorkspacePathSafe, even when it resolves
\* inside the root, and before any filesystem access is made.
C8_DotDotRejectedBeforeResolution ==
    HasDotDotSegment(request.relativePath) =>
        /\ ppc \in {"idle", "start", "done"}
        /\ fsCalls = <<>>
        /\ ppc = "done" => outcome = ErrorResult("PERMISSION_DENIED")

C8_Witness ==
    /\ ppc = "done"
    /\ request.fn = "resolveWorkspacePathSafe"
    /\ request.relativePath = <<"a", "/", ".", ".">>
    /\ TargetSegments = RootSegments
    /\ outcome = ErrorResult("PERMISSION_DENIED")
    /\ fsCalls = <<>>

\* C9: resolveWorkspacePathSafe rejects with PERMISSION_DENIED every
\* existing path that is syntactically inside the root and whose real
\* location is outside the real workspace root.
C9_SymlinkEscapeRejected ==
    (/\ request.fn = "resolveWorkspacePathSafe"
     /\ ppc = "done"
     /\ SyntacticallyInside
     /\ Real(TargetSegments).ok
     /\ ~IsSegmentPrefix(RealRootSegments, Real(TargetSegments).segs))
        => outcome = ErrorResult("PERMISSION_DENIED")

C9_Witness ==
    /\ request.fn = "resolveWorkspacePathSafe"
    /\ ppc = "done"
    /\ fsys = FsWorkspace
    /\ request.relativePath = <<"l">>
    /\ Real(TargetSegments).segs = <<n_l>>
    /\ outcome = ErrorResult("PERMISSION_DENIED")
    /\ Len(fsCalls) = 2

MissingTargetResolved ==
    /\ request.fn = "resolveWorkspacePathSafe"
    /\ ~request.requireExists
    /\ ppc = "done"
    /\ SyntacticallyInside
    /\ ~Real(TargetSegments).ok

AncestorInsideRoot == IsSegmentPrefix(RealRootSegments, Real(NearestExistingAncestor).segs)

\* C10, as stated: for a missing target (requireExists=false) the nearest
\* existing ancestor's real path decides: outside the real root the path is
\* rejected with PERMISSION_DENIED, and it is accepted only when that real
\* path is the root or inside it.
C10_NearestAncestorValidated ==
    MissingTargetResolved =>
        /\ ~AncestorInsideRoot => outcome = ErrorResult("PERMISSION_DENIED")
        /\ outcome.kind = "path" => AncestorInsideRoot

\* C10, amended: the above holds when the workspace root exists; when the
\* root itself does not exist the walk stops at it without validating
\* anything and the syntactically resolved path is accepted.
C10_AncestorValidatedBelowExistingRoot ==
    MissingTargetResolved =>
        IF RootExists
        THEN /\ ~AncestorInsideRoot => outcome = ErrorResult("PERMISSION_DENIED")
             /\ AncestorInsideRoot => outcome = PathResult(ToPath(TargetSegments))
        ELSE outcome = PathResult(ToPath(TargetSegments))

C10_Witness ==
    /\ MissingTargetResolved
    /\ fsys = FsWorkspace
    /\ request.relativePath = <<"l", "/", "a", "/", "a">>
    /\ NearestExistingAncestor = <<n_a, n_l>>
    /\ ~AncestorInsideRoot
    /\ outcome = ErrorResult("PERMISSION_DENIED")
    /\ Len(fsCalls) = 4

\* C11: every failure of resolveWorkspacePathSafe carries PERMISSION_DENIED
\* or NOT_FOUND, and with requireExists=true a path inside the root that the
\* filesystem cannot resolve yields NOT_FOUND.
C11_FailuresArePermissionDeniedOrNotFound ==
    (request.fn = "resolveWorkspacePathSafe" /\ ppc = "done") =>
        /\ outcome.kind = "error" => outcome.error \in {"PERMISSION_DENIED", "NOT_FOUND"}
        /\ (request.requireExists /\ SyntacticallyInside /\ ~Real(TargetSegments).ok)
               => outcome = ErrorResult("NOT_FOUND")

----------------------------------------------------------------------------
(* Properties of the context store.                                        *)

\* C12: within one ContextManager any two saveContext calls, also two for
\* the same tool with identical arguments in the same millisecond, write to
\* different file paths, and no write goes to a file that already exists.
C12_SavesWriteDistinctPaths ==
    /\ \A i, j \in DOMAIN writeLog : i # j => writeLog[i] # writeLog[j]
    /\ \A s \in SaveIds :
           saveCalls[s].pc = "write" => saveCalls[s].filename \notin DOMAIN files

C12_Witness ==
    \E random \in RandomSuffixes :
        LET first == generateFilename(tool_get_doc, args_cfg, 0, 0, random)
            second == generateFilename(tool_get_doc, args_cfg, 0, 1, random)
        IN  /\ writeLog = <<joinPath(ContextDir, first), joinPath(ContextDir, second)>>
            /\ {first, second} \subseteq DOMAIN files
            /\ files[first] = files[second]
            /\ files[first].kind = "json"
            /\ clock = 0

(* The saveContext calls settled since the last completed clear(). *)
SavesSinceClear ==
    LET clears == {i \in DOMAIN saveLog : saveLog[i].op = "clear"}
        last == IF clears = {} THEN 0 ELSE CHOOSE i \in clears : \A j \in clears : j <= i
    IN  SubSeq(saveLog, last + 1, Len(saveLog))

SuccessfulSaves == SelectSeq(SavesSinceClear, LAMBDA e : e.ok)

\* C13: after any sequence of saveContext calls, successful or failing,
\* since the last clear, the pointer list holds exactly one pointer per
\* successful save, in order; each pointer names the file that save wrote,
\* which is on disk with that save's context, and no two pointers name the
\* same file.
C13_OnePointerPerSuccessfulSave ==
    ~ClearInProgress =>
        /\ Len(pointers) = Len(SuccessfulSaves)
        /\ \A i \in DOMAIN pointers :
               /\ pointers[i].filepath = SuccessfulSaves[i].filepath
               /\ pointers[i].filepath = joinPath(ContextDir, pointers[i].filename)
               /\ pointers[i].filename \in DOMAIN files
               /\ files[pointers[i].filename].kind = "json"
               /\ files[pointers[i].filename].value.toolName = pointers[i].toolName
               /\ files[pointers[i].filename].value.args = pointers[i].args
               /\ files[pointers[i].filename].value.toolDescription
                      = pointers[i].toolDescription
        /\ \A i, j \in DOMAIN pointers : i # j => pointers[i].filepath # pointers[j].filepath

C13_Witness ==
    /\ ~ClearInProgress
    /\ SavesInFlight = {}
    /\ Len(SavesSinceClear) = 2
    /\ SavesSinceClear[1].failed = "writeFile"
    /\ NameIn(ContextDir, SavesSinceClear[1].filepath) \in DOMAIN files
    /\ SavesSinceClear[2].ok
    /\ Len(pointers) = 1
    /\ pointers[1].filepath = SavesSinceClear[2].filepath
    /\ pointers[1].filename \in DOMAIN files

----------------------------------------------------------------------------
(* Properties of selectRelevantContexts, stated on the texts themselves.   *)

(* Where a token starts in a text: a maximal run of non-separator          *)
(* characters, longer than two.                                            *)
IsSeparatorAt(text, i) == i < 1 \/ i > Len(text) \/ text[i] \in KeywordSeparators

TokenEnd(text, i) ==
    CHOOSE j \in i .. Len(text) :
        IsSeparatorAt(text, j + 1) /\ \A k \in i .. j : ~IsSeparatorAt(text, k)

TokenStarts(text) ==
    {i \in 1 .. Len(text) :
        /\ ~IsSeparatorAt(text, i)
        /\ IsSeparatorAt(text, i - 1)
        /\ TokenEnd(text, i) - i + 1 > 2}

TokenAt(text, i) == toLowerCase(SubSeq(text, i, TokenEnd(text, i)))

TokensOf(text) == {TokenAt(text, i) : i \in TokenStarts(text)}

(* The token-overlap score: the query's tokens found among the description's. *)
OverlapScore(query, description) ==
    Cardinality({i \in TokenStarts(query) : TokenAt(query, i) \in TokensOf(description)})

InputScore(i) == OverlapScore(selInput.query, selInput.pointers[i].toolDescription)

Scoring == {i \in DOMAIN selInput.pointers : InputScore(i) > 0}

PathScore(filepath) ==
    InputScore(CHOOSE i \in DOMAIN selInput.pointers : selInput.pointers[i].filepath = filepath)

\* C14: selectRelevantContexts fails open: for a non-empty pointer list the
\* result is never empty, and when no pointer scores above zero the result
\* is the filepaths of all given pointers, in their order.
C14_SelectFailsOpen ==
    selOutput.done =>
        /\ selInput.pointers # <<>> => selOutput.filepaths # <<>>
        /\ Scoring = {} => selOutput.filepaths = Filepaths(selInput.pointers)

C14_Witness ==
    /\ selOutput.done
    /\ Len(selInput.pointers) = 3
    /\ TokensOf(selInput.query) = {word_get}
    /\ \A i \in DOMAIN selInput.pointers : TokensOf(selInput.pointers[i].toolDescription) # {}
    /\ Scoring = {}
    /\ selOutput.filepaths = Filepaths(selInput.pointers)

\* C15: when at least one pointer scores above zero, the result is exactly
\* the pointers whose token-overlap score is above zero, each once, ordered
\* by non-increasing score.
C15_SelectReturnsScoringPointersRanked ==
    (selOutput.done /\ Scoring # {}) =>
        /\ Range(selOutput.filepaths) = {selInput.pointers[i].filepath : i \in Scoring}
        /\ Len(selOutput.filepaths) = Cardinality(Scoring)
        /\ \A i, j \in DOMAIN selOutput.filepaths :
               i < j => PathScore(selOutput.filepaths[i]) >= PathScore(selOutput.filepaths[j])

C15_Witness ==
    /\ selOutput.done
    /\ Len(selInput.pointers) = 3
    /\ InputScore(1) = 0
    /\ InputScore(2) = 1
    /\ InputScore(3) = 2
    /\ selOutput.filepaths = <<selInput.pointers[3].filepath, selInput.pointers[2].filepath>>

(* The file a path names, when it holds text that JSON.parse accepts. *)
Loadable(filepath) ==
    \E n \in DOMAIN files : joinPath(ContextDir, n) = filepath /\ files[n].kind = "json"

Parsed(filepath) ==
    files[CHOOSE n \in DOMAIN files : joinPath(ContextDir, n) = filepath].value

\* C16: loadContexts never throws: it returns the parsed contexts of exactly
\* the given files that exist and parse, in input order; a missing or
\* malformed file is skipped and the others are loaded all the same.
C16_LoadSkipsMissingAndMalformed ==
    loadCall.pc = "resolved" =>
        LET good == SelectSeq(loadCall.filepaths, Loadable)
        IN  loadCall.contexts = [i \in DOMAIN good |-> Parsed(good[i])]

C16_Witness ==
    /\ loadCall.pc = "resolved"
    /\ Len(pointers) = 1
    /\ Len(loadCall.filepaths) = 6
    /\ ~Loadable(loadCall.filepaths[1])
    /\ loadCall.filepaths[3] = pointers[1].filepath
    /\ NameIn(ContextDir, loadCall.filepaths[4]) \in DOMAIN files
    /\ ~Loadable(loadCall.filepaths[4])
    /\ loadCall.contexts =
           <<OtherSessionContext, files[pointers[1].filename].value, OtherSessionContext>>

ClearIsUnlinking == clearCall.pc = "unlink"

\* C18: the context directory is append-only during a session: no operation
\* other than clear() (saveContext, loadContexts, selectRelevantContexts,
\* the pointer queries) deletes, truncates or rewrites an existing context
\* file; every write of saveContext goes to a path that holds no file.
C18_DirectoryIsAppendOnly ==
    [][/\ ~ClearIsUnlinking =>
              \A n \in DOMAIN files : n \in DOMAIN files' /\ files'[n] = files[n]
       /\ \A s \in SaveIds :
              saveCalls[s].pc = "write" => saveCalls[s].filename \notin DOMAIN files]_vars

C18_Witness ==
    /\ ClearsMade = 0
    /\ clearCall.pc = "idle"
    /\ Len(pointers) = 2
    /\ \A i \in 1..2 : files[pointers[i].filename].kind = "json"
    /\ pointers[1].filename # pointers[2].filename
    /\ \A n \in DOMAIN ForeignFiles : n \in DOMAIN files /\ files[n] = ForeignFiles[n]
    /\ Cardinality(DOMAIN files) = 4
    /\ Len(queryResult) = 1

\* C19: a failure while persisting a tool result (mkdir or writeFile failing
\* during saveContext) never aborts the turn or the session: it is logged
\* and skipped, so the call settles without an error reaching its caller
\* and simply leaves no persisted context.
C19_PersistFailureIsLoggedAndSkipped ==
    \A i \in DOMAIN saveLog :
        (saveLog[i].op = "save" /\ saveLog[i].failed \in {"mkdir", "writeFile"}) =>
            /\ saveLog[i].ok
            /\ saveLog[i].logged # "NONE"

(*************************************************************************)
(* Properties of the agent orchestrator.                                   *)
(*************************************************************************)

(* The transitions of the orchestrator's state machine. *)
OrchTransitions ==
    {<<"Idle", "AwaitingModel">>,
     <<"AwaitingModel", "ToolCallsRequested">>,
     <<"ToolCallsRequested", "ExecutingTools">>,
     <<"ExecutingTools", "AwaitingModel">>,
     <<"AwaitingModel", "Answered">>}
    \cup {<<from, "Canceled">> : from \in OrchStates \ TerminalStates}

\* C20: the orchestrator's state changes only along Idle -> AwaitingModel ->
\* (ToolCallsRequested -> ExecutingTools -> AwaitingModel)* -> Answered, or
\* into Canceled; Answered is entered only from AwaitingModel on a response
\* without tool calls, and Answered and Canceled are terminal.
C20_OrchestratorFollowsStateMachine ==
    [][/\ orchState' # orchState => <<orchState, orchState'>> \in OrchTransitions
       /\ (orchState' = "Answered" /\ orchState # "Answered") =>
              orchState = "AwaitingModel" /\ llmResponse'.toolCalls = {}
       /\ orchState \in TerminalStates => UNCHANGED orchVars]_vars

C20_Witness ==
    /\ orchState = "Answered"
    /\ rounds = MaxRounds
    /\ llmResponse.toolCalls = {}
    /\ \E i \in DOMAIN callbackLog : callbackLog[i] = Callback("onToolEnd", "t2")

(* The callbacks of one name made for one tool call, as positions of the log. *)
CallbackPositions(name, c) ==
    {i \in DOMAIN callbackLog : callbackLog[i] = Callback(name, c)}

\* C21: the orchestrator advances from ExecutingTools to the next
\* AwaitingModel only after every tool call requested in that model turn has
\* completed or been canceled, whatever order the concurrent tool calls
\* finish in.
C21_AdvancesOnlyWhenAllToolCallsSettled ==
    [][(orchState = "ExecutingTools" /\ orchState' = "AwaitingModel") =>
           \A c \in llmResponse.toolCalls :
               toolCalls[c] \in {"completed", "failed", "canceled"}]_vars

C21_Witness ==
    /\ orchState = "AwaitingModel"
    /\ rounds = 1
    /\ llmResponse.toolCalls = ToolCallIds
    /\ \E i \in CallbackPositions("onToolStart", "t1"),
          j \in CallbackPositions("onToolStart", "t2"),
          k \in CallbackPositions("onToolEnd", "t2"),
          l \in CallbackPositions("onToolEnd", "t1") : i < j /\ j < k /\ k < l

ToolFailsNow(c) == toolCalls[c] = "running" /\ toolCalls'[c] = "failed"

\* C23: a tool execution that fails never crashes or terminates the
\* orchestrator loop: the failure is caught at the tool boundary, converted
\* into a textual failed tool result that is passed back to the model, and
\* the loop proceeds to the next AwaitingModel.
C23_ToolFailureGoesBackToTheModel ==
    [][/\ (\E c \in ToolCallIds : ToolFailsNow(c)) => orchState' = "ExecutingTools"
       /\ (orchState = "ExecutingTools" /\ \E c \in ToolCallIds : toolCalls[c] = "failed") =>
              \/ orchState' = "ExecutingTools"
              \/ orchState' = "Canceled"
              \/ /\ orchState' = "AwaitingModel"
                 /\ Len(toolResults') = Len(toolResults) + 1
                 /\ \A c \in llmResponse.toolCalls :
                        toolCalls[c] = "failed" <=>
                            toolResults'[Len(toolResults')][c] = "failed-tool-result"]_vars

C23_Witness ==
    /\ orchState = "Answered"
    /\ Len(toolResults) = 2
    /\ toolResults[1] = [c \in ToolCallIds |->
                            IF c = "t1" THEN "failed-tool-result" ELSE "tool-result"]
    /\ toolResults[2] = [c \in {"t2"} |-> "failed-tool-result"]

(* The tool calls executed in the rounds completed: <<round, id>>. *)
ExecutedCalls ==
    {rc \in (0 .. Len(toolResults) - 1) \X ToolCallIds :
         rc[2] \in DOMAIN toolResults[rc[1] + 1]}

CallbackCount(name, c, n) ==
    Cardinality({i \in 1 .. n : callbackLog[i] = Callback(name, c)})

(* Each execution of a tool call has one onToolStart, then one onToolEnd. *)
ToolCallbacksPaired ==
    \A c \in ToolCallIds :
        /\ CallbackCount("onToolStart", c, Len(callbackLog)) =
               Cardinality({rc \in ExecutedCalls : rc[2] = c})
        /\ CallbackCount("onToolEnd", c, Len(callbackLog)) =
               Cardinality({rc \in ExecutedCalls : rc[2] = c})
        /\ \A n \in 0 .. Len(callbackLog) :
               CallbackCount("onToolStart", c, n) - CallbackCount("onToolEnd", c, n)
                   \in {0, 1}

(* onAgentEnd is made once, as the last callback. *)
AgentEndOnceAndLast ==
    /\ callbackLog # <<>>
    /\ \A i \in DOMAIN callbackLog :
           callbackLog[i].callback = "onAgentEnd" <=> i = Len(callbackLog)

C25_OneAgentRunAtATime ==
    /\ Cardinality(RunsInProgress) <= 1
    /\ RunsInProgress # {} => ~InputAccepted

(*************************************************************************)
(* Properties of the model invocation client.                              *)
(*************************************************************************)

\* C26: the model client is created lazily on first use and then reused:
\* across any sequence of invoke/stream calls the provider factory is called
\* again only if the selected provider name has changed since the cached
\* client was created.
C26_FactoryCalledOnlyWithoutClientForProvider ==
    [][/\ llmCall.number = 0 => cachedClient = Undefined /\ factoryCalls = <<>>
       /\ factoryCalls' # factoryCalls =>
              /\ llmCall.pc = "attempting"
              /\ cachedClient # Some(selectedProvider)
              /\ Len(factoryCalls') = Len(factoryCalls) + 1
              /\ factoryCalls'[Len(factoryCalls')].provider = selectedProvider]_vars

C26_Witness ==
    /\ llmCall.number = 3
    /\ llmCall.pc = "returned"
    /\ Len(factoryCalls) = 2
    /\ factoryCalls[1] = [provider |-> "openai", ok |-> TRUE, number |-> 1]
    /\ factoryCalls[2] = [provider |-> "anthropic", ok |-> TRUE, number |-> 3]

NotificationCount(name) ==
    Cardinality({i \in 1 .. Len(llmNotifications) : llmNotifications[i] = name})

StreamEstablished == llmCall.kind = "stream" /\ llmCall.pc \in {"streaming", "ended", "iterationFailed"}

\* C27: for one stream() call the start notification fires exactly once
\* however many establishment retries occur, only stream establishment is
\* retried (a failure during iteration causes no retry), and the end
\* notification fires once, only after the consumer has exhausted the iterable.
C27_StreamNotificationsAndRetries ==
    /\ [](llmCall.kind = "stream" =>
              /\ NotificationCount("onStreamStart") = 1
              /\ llmNotifications[1] = "onStreamStart"
              /\ NotificationCount("onStreamEnd") = (IF llmCall.pc = "ended" THEN 1 ELSE 0)
              /\ llmCall.pc = "ended" =>
                     llmNotifications[Len(llmNotifications)] = "onStreamEnd"
              /\ NotificationCount("onRetry") = llmCall.attempt)
    /\ [][StreamEstablished /\ llmCall'.number = llmCall.number =>
              /\ llmCall'.pc # "attempting"
              /\ llmCall'.attempt = llmCall.attempt
              /\ NotificationCount("onRetry")' = NotificationCount("onRetry")
              /\ factoryCalls' = factoryCalls]_vars

C27_Witness ==
    /\ llmCall.kind = "stream"
    /\ llmCall.pc = "ended"
    /\ llmNotifications = <<"onStreamStart", "onRetry", "onStreamChunk", "onStreamEnd">>

(*************************************************************************)
(* Properties of the tool registry.                                        *)
(*************************************************************************)

RequestsServed(id) ==
    {i \in 1 .. Len(toolRequests) : toolRequests[i].id = id /\ toolRequests[i].received # 0}

CappedBackoff(attemptNo, o) ==
    IF o.baseDelayMs * 2 ^ attemptNo <= o.maxDelayMs
    THEN o.baseDelayMs * 2 ^ attemptNo
    ELSE o.maxDelayMs

\* C29: calculateDelay with jitter disabled is deterministic and equals
\* min(baseDelayMs * 2^attempt, maxDelayMs) for every attempt >= 0.
C29_DelayWithoutJitterIsCappedBackoff ==
    \A c \in CallIds :
        /\ \A attemptNo \in 0 .. MaxRetriesBound + 1, rnd \in RandomDraws :
               calculateDelay(attemptNo, opts[c].baseDelayMs, opts[c].maxDelayMs, FALSE, rnd)
                   = CappedBackoff(attemptNo, opts[c])
        /\ ~opts[c].enableJitter =>
               \A i \in DOMAIN sleepLog[c] : sleepLog[c][i] = CappedBackoff(i - 1, opts[c])

C29_Witness ==
    /\ ~opts["A"].enableJitter
    /\ sleepLog["A"] = <<TestBaseDelayMs, TestBaseDelayMs + TestBaseDelayMs \div 2>>

\* C30 as stated: every delay that withRetry reports to the observer and
\* sleeps between attempts is at most maxDelayMs.
C30_DelaysAtMostMaxDelay ==
    \A c \in CallIds :
        /\ \A i \in DOMAIN sleepLog[c] : sleepLog[c][i] <= opts[c].maxDelayMs
        /\ \A i \in DOMAIN onRetryLog[c] : onRetryLog[c][i].delayMs <= opts[c].maxDelayMs

\* C30: every delay that withRetry reports to the observer and sleeps
\* between attempts is at most maxDelayMs when jitter is disabled, and at
\* most maxDelayMs * (1 + the jitter factor) when jitter is enabled, for a
\* maxDelayMs of at least 1.
C30_DelaysAtMostMaxDelayPlusJitter ==
    \A c \in CallIds : opts[c].maxDelayMs >= 1 =>
        LET Allowed(delayMs) ==
                IF opts[c].enableJitter
                THEN 100 * delayMs <= opts[c].maxDelayMs * (100 + JitterPercent)
                ELSE delayMs <= opts[c].maxDelayMs
        IN  /\ \A i \in DOMAIN sleepLog[c] : Allowed(sleepLog[c][i])
            /\ \A i \in DOMAIN onRetryLog[c] : Allowed(onRetryLog[c][i].delayMs)

C30_Witness ==
    /\ opts["A"].enableJitter
    /\ opts["A"].onRetry
    /\ Len(sleepLog["A"]) = 2
    /\ sleepLog["A"][2] > opts["A"].maxDelayMs
    /\ onRetryLog["A"][2].delayMs = sleepLog["A"][2]

(*************************************************************************)
(* Further properties of withRetry and calculateDelay.                     *)
(*************************************************************************)

\* C33: every response returned by withRetry is a response produced by an
\* invocation of the operation (the operation is invoked at least once); the
\* fallback UNKNOWN 'Retry logic reached unreachable state' response is never
\* returned, for any options.
C33_ReturnsAResponseOfTheOperation ==
    \A c \in CallIds : pc[c] = "done" =>
        /\ opLog[c] # <<>>
        /\ result[c] = Last(opLog[c])
        /\ result[c] # FallbackResponse

EventCount(c, name) ==
    Cardinality({j \in DOMAIN events[c] : events[c][j] = name})

\* C34: in one withRetry call the observer is invoked exactly (number of
\* operation invocations - 1) times, with attempt values 1, 2, ... in
\* increasing order; it is never invoked after a success, after a
\* non-retryable failure, or after the final exhausted attempt.
C34_ObserverOncePerRetry ==
    \A c \in CallIds : opts[c].onRetry =>
        /\ EventCount(c, "onRetry") = Len(onRetryLog[c])
        /\ \A i \in DOMAIN onRetryLog[c] :
               /\ onRetryLog[c][i].attempt = i
               /\ IsRetryableFailure(opLog[c][i])
               /\ i <= opts[c].maxRetries
        /\ pc[c] \in {"done", "thrown"} =>
               Len(onRetryLog[c]) = EventCount(c, "invoke") - 1
        /\ pc[c] = "awaitOp" => Len(onRetryLog[c]) = EventCount(c, "invoke") - 1
        /\ \A j \in DOMAIN events[c] :
               events[c][j] = "onRetry" =>
                   /\ j > 1 /\ events[c][j - 1] = "invoke"
                   /\ j + 2 <= Len(events[c]) => events[c][j + 2] = "invoke"

C34_Witness ==
    /\ opts["A"].onRetry
    /\ pc["A"] = "done"
    /\ EventCount("A", "invoke") = 3
    /\ Len(onRetryLog["A"]) = 2
    /\ ~result["A"].success

JitterCap(attemptNo, baseDelayMs, maxDelayMs) ==
    IF baseDelayMs * 2 ^ attemptNo <= maxDelayMs THEN baseDelayMs * 2 ^ attemptNo ELSE maxDelayMs

SmallDelays == {1, 2, 3}

\* C35 as stated: with jitter enabled, calculateDelay returns a value that
\* is at least 1 ms and lies within [c*(1-j), c*(1+j)], where
\* c = min(baseDelayMs * 2^attempt, maxDelayMs) and j is the jitter factor.
C35_JitteredDelayWithinFactor ==
    \A c \in CallIds : opts[c].enableJitter =>
        \A i \in DOMAIN sleepLog[c] :
            LET capped == JitterCap(i - 1, opts[c].baseDelayMs, opts[c].maxDelayMs)
            IN  /\ sleepLog[c][i] >= 1
                /\ 100 * sleepLog[c][i] >= capped * (100 - JitterPercent)
                /\ 100 * sleepLog[c][i] <= capped * (100 + JitterPercent)

\* C35: with jitter enabled and c = min(baseDelayMs * 2^attempt, maxDelayMs)
\* at least 1, calculateDelay returns a whole number of milliseconds that is
\* at least 1 and lies within [floor(c*(1-j)), c*(1+j)], j being the jitter
\* factor.
C35_JitteredDelayWithinFlooredFactor ==
    /\ \A c \in CallIds : opts[c].enableJitter =>
           \A i \in DOMAIN sleepLog[c] :
               LET capped == JitterCap(i - 1, opts[c].baseDelayMs, opts[c].maxDelayMs)
               IN  /\ sleepLog[c][i] >= 1
                   /\ sleepLog[c][i] >= (capped * (100 - JitterPercent)) \div 100
                   /\ 100 * sleepLog[c][i] <= capped * (100 + JitterPercent)
    /\ \A attemptNo \in 0 .. MaxRetriesBound, baseDelayMs \in SmallDelays,
          maxDelayMs \in SmallDelays, rnd \in RandomDraws :
           LET capped == JitterCap(attemptNo, baseDelayMs, maxDelayMs)
               delayMs == calculateDelay(attemptNo, baseDelayMs, maxDelayMs, TRUE, rnd)
           IN  /\ delayMs >= 1
               /\ delayMs >= (capped * (100 - JitterPercent)) \div 100
               /\ 100 * delayMs <= capped * (100 + JitterPercent)

C35_Witness ==
    /\ opts["A"].enableJitter
    /\ Len(sleepLog["A"]) = 2
    /\ 100 * sleepLog["A"][2] < opts["A"].maxDelayMs * (100 - JitterPercent)
    /\ sleepLog["A"][2] = (opts["A"].maxDelayMs * (100 - JitterPercent)) \div 100

(*************************************************************************)
(* Properties of extractRetryAfter.                                        *)
(*************************************************************************)

\* C31: extractRetryAfter, given a retry-after value that is an HTTP-date
\* (or other date-parseable) string, returns the number of milliseconds from
\* now until that time when it lies in the future, and undefined when it
\* lies in the past.
C31_DateStringGivesTimeUntilThen ==
    LET retryAfter == RetryAfterOf(retryAfterCall.error)
        time == DateParse(retryAfter.str)
    IN  /\ retryAfterCall.pc = "done"
        /\ retryAfterCall.error.kind = "object"
        /\ retryAfter.type = "string"
        /\ time # NaN
        => retryAfterCall.returned =
               IF time[1] > retryAfterCall.now
               THEN Some(time[1] - retryAfterCall.now)
               ELSE Undefined

(*************************************************************************)
(* Further properties of the workspace path resolver.                      *)
(*************************************************************************)

(* The location a path denotes: links are followed in every component that *)
(* exists, and the components after the first missing one are kept as they *)
(* are (where an open or a write would create them).                        *)
RECURSIVE DenotedSegments(_, _, _, _)
DenotedSegments(fs, cur, rest, fuel) ==
    IF rest = <<>> THEN [ok |-> TRUE, segs |-> cur]
    ELSE LET next == Append(cur, Head(rest))
         IN  IF fs[cur].kind = "file" THEN [ok |-> FALSE, segs |-> <<>>]
             ELSE IF next \notin DOMAIN fs THEN [ok |-> TRUE, segs |-> cur \o rest]
             ELSE IF fs[next].kind = "link"
                  THEN IF fuel = 0 THEN [ok |-> FALSE, segs |-> <<>>]
                       ELSE DenotedSegments(fs, <<>>, fs[next].target \o Tail(rest), fuel - 1)
                  ELSE DenotedSegments(fs, next, Tail(rest), fuel)

Denoted(segs) == DenotedSegments(fsys, <<>>, segs, SymlinkFuel)

\* C36: whenever resolveWorkspacePathSafe returns a path rather than an
\* error, the filesystem location that path denotes, following symbolic
\* links in every existing component, is the real workspace root or lies
\* inside it.
C36_ReturnedPathDenotesLocationInsideRoot ==
    (request.fn = "resolveWorkspacePathSafe" /\ ppc = "done" /\ outcome.kind = "path") =>
        LET location == Denoted(Segments(outcome.path))
            root == Denoted(RootSegments)
        IN  location.ok /\ root.ok => IsSegmentPrefix(root.segs, location.segs)

(*************************************************************************)
(* Further properties of selectRelevantContexts.                           *)
(*************************************************************************)

InputIndexOf(filepath) ==
    CHOOSE i \in DOMAIN selInput.pointers : selInput.pointers[i].filepath = filepath

\* C37: pointers with equal relevance scores are returned by
\* selectRelevantContexts in the same relative order as in the input pointer
\* list (stable, insertion order).
C37_EqualScoresKeepInputOrder ==
    selOutput.done =>
        \A i, j \in DOMAIN selOutput.filepaths :
            (i < j /\ PathScore(selOutput.filepaths[i]) = PathScore(selOutput.filepaths[j]))
                => InputIndexOf(selOutput.filepaths[i]) < InputIndexOf(selOutput.filepaths[j])

C37_Witness ==
    /\ selOutput.done
    /\ Len(selInput.pointers) = 3
    /\ InputScore(1) = 1
    /\ InputScore(2) = 1
    /\ InputScore(3) = 2
    /\ selOutput.filepaths = <<selInput.pointers[3].filepath, selInput.pointers[1].filepath,
                               selInput.pointers[2].filepath>>

(*************************************************************************)
(* Further properties of the ContextManager.                               *)
(*************************************************************************)

(* The names of the files this manager's saveContext calls have written. *)
OwnNames == {NameIn(ContextDir, writeLog[i]) : i \in DOMAIN writeLog}

\* C38 as stated: clear() deletes only context files created by this
\* ContextManager's own saveContext calls; any other file in the context
\* directory, including files written by another session that shares the
\* directory, is left untouched.
C38_ClearDeletesOnlyOwnFiles ==
    [][\A n \in DOMAIN files :
           n \notin OwnNames => n \in DOMAIN files' /\ files'[n] = files[n]]_vars

\* C38: clear() deletes only files of the context directory whose name ends
\* in .json, whoever wrote them (files of another session that shares the
\* directory included); a file with any other name is left untouched, and
\* no file is rewritten.
C38_ClearDeletesOnlyJsonFiles ==
    [][\A n \in DOMAIN files :
           /\ n \notin DOMAIN files' => ClearIsUnlinking /\ EndsWith(n, dotJson)
           /\ n \in DOMAIN files' => files'[n] = files[n]]_vars

C38_Witness ==
    /\ clearCall.pc = "done"
    /\ name_other \in clearCall.before
    /\ name_other \notin OwnNames
    /\ name_other \notin DOMAIN files
    /\ name_notes \in DOMAIN files
    /\ \E n \in OwnNames : n \in clearCall.before /\ n \notin DOMAIN files

(*************************************************************************)
(* Properties of executeCustomCommand.                                     *)
(*************************************************************************)

(* The file references and shell commands of the command's own body. *)
OwnFileReferences ==
    {StripTrailingPunctuation(filePath) :
        filePath \in Range(FileRefMatchesFrom(commandCall.body, 1))}

OwnCommands == Range(BashMatchesFrom(commandCall.body, 1))

\* C39: in executeCustomCommand, user-supplied argument text is inserted
\* only as data: an argument that contains an @path reference or a
\* !`command` pattern causes no file to be read and no shell command to be
\* run; only references and commands present in the command's own body are
\* processed.
C39_ArgumentsAreInsertedAsData ==
    /\ Range(fileReads) \subseteq OwnFileReferences
    /\ Range(commandsRun) \subseteq OwnCommands

(*************************************************************************)
(* Properties of the write tool.                                           *)
(*************************************************************************)

CompleteContents == {Some(writers[w].content) : w \in Writers}

\* C32: the write tool replaces a file atomically: at every moment, and
\* after any failure of the tool, the target path holds either its
\* complete previous state (previous content, or absent) or the complete
\* new content of an execution, never a partial write.
C32_TargetIsPreviousOrCompleteNew ==
    TargetState \in {previousTarget} \cup CompleteContents

AllFinished == \A w \in Writers : writers[w].pc \in FinishedPcs

NoTempFileLeft == \A t \in DOMAIN dirEntries.temp : dirEntries.temp[t] = NoInode

\* C40: when two executions of the write tool on the same path run
\* concurrently, each one succeeds or reports a failure, and once both
\* are over no temporary file is left in the directory and, when one of
\* them succeeded, the target holds exactly the complete content of one of
\* them.
C40_ConcurrentWritesLeaveOneCompleteContent ==
    AllFinished =>
        /\ NoTempFileLeft
        /\ (\E w \in Writers : writers[w].pc = "returned") =>
               TargetState \in CompleteContents

====
